---- MODULE Spec2Model ----
(***************************************************************************)
(* ARISS scoring engine (ariss_scorer.py): per-comment ensemble scoring    *)
(* and the aggregation of scored comments into the index.                  *)
(*                                                                         *)
(* Number representation.  Python floats are modelled by integers:         *)
(*   - a sentiment score (textblob_score, vader_score, claude_score,       *)
(*     weighted_score) is held in twentieths of a point (72 points = 1440),*)
(*     the granularity of the ensemble weights 0.60/0.25/0.15 applied to   *)
(*     whole-point estimates;                                              *)
(*   - bias_score and source_credibility are held in whole points;         *)
(*   - length_weight is held in tenths;                                    *)
(*   - a per-comment weight is held in units of 0.00001;                   *)
(*   - a value rounded by round(x, 2) is held in hundredths.               *)
(* The float NaN is the distinguished value NaN; every operator that       *)
(* can meet it treats it as IEEE arithmetic and Python comparisons do.     *)
(***************************************************************************)
EXTENDS Integers, Sequences, FiniteSets, TLC

VARIABLES
    vader,             \* ARISSScorer.vader is set (the analyzer was importable)
    comments,          \* the run's list of Comment objects
    replies,           \* what the Anthropic call did for each comment scored so far
    sentiment_scores,  \* the list of SentimentScore objects
    raised,            \* an exception left the scorer
    pc,                \* position of the run
    calc,              \* the locals of the latest calculate_ariss call
    ariss_result,      \* the dict the latest calculate_ariss call returned
    prev_call,         \* input, locals and result of the call before it
    fn_arg,            \* the argument of a helper function applied on its own
    fn_ret,            \* what the helper returned for it
    scorer,            \* st.session_state.scorer is set
    env,               \* the sources whose credentials are in the environment
    context,           \* the context string of the run
    api,               \* what each source's client did in the run
    warnings,          \* the sources the run warned about (st.warning)
    returned,          \* what calculate_new_ariss returned
    db,                \* the store: the rows of its three tables
    threads            \* the threads calling the store: position and locals

vars == <<vader, comments, replies, sentiment_scores, raised, pc, calc,
          ariss_result, prev_call, fn_arg, fn_ret,
          scorer, env, context, api, warnings, returned, db, threads>>

\* The variables of the web application's run.
appvars == <<scorer, env, context, api, warnings, returned, db, threads>>

\* The tables after _create_tables on a new file.  subjects and ariss_scores
\* are kept in id order (AUTOINCREMENT, no row is ever deleted), a row's id
\* being its index; sentiment_scores is the set of its rows without the
\* surrogate id; writer: the connection holding the write lock (0: none).
EmptyStore == [subjects |-> <<>>, ariss_scores |-> <<>>, sentiment_scores |-> {},
               writer |-> 0]

\* The application is not running.
NoApp ==
    /\ scorer = TRUE
    /\ env = {}
    /\ context = ""
    /\ api = <<>>
    /\ warnings = <<>>
    /\ returned = "pending"
    /\ db = EmptyStore
    /\ threads = <<>>

\* The helper functions are not applied on their own in a scoring run.
fnvars == <<fn_arg, fn_ret>>

NoValue == [none |-> TRUE]

----------------------------------------------------------------------------
(* Bounds of the model *)

MaxComments == 2    \* comments of one scoring run

----------------------------------------------------------------------------
(* Floats *)

NaN == 0 - 1000000000

IsNaN(x) == x = NaN

Min(a, b) == IF a <= b THEN a ELSE b

Max(a, b) == IF a >= b THEN a ELSE b

\* np.clip(x, lo, hi): minimum(maximum(x, lo), hi); NaN propagates.
np_clip(x, lo, hi) == IF IsNaN(x) THEN NaN ELSE Min(Max(x, lo), hi)

\* Python's max(a, b) on floats: b only when b > a, and nan > a is False.
py_max(a, b) == IF IsNaN(b) THEN a ELSE IF IsNaN(a) THEN a ELSE IF b > a THEN b ELSE a

\* A score of p whole points, in twentieths.
Points(p) == 20 * p

\* The integer nearest to n / d (d > 0, n >= 0), ties to even: round().
RoundHalfEven(n, d) ==
    LET q == n \div d
        r == n % d
    IN  IF 2 * r < d THEN q
        ELSE IF 2 * r > d THEN q + 1
        ELSE IF q % 2 = 0 THEN q ELSE q + 1

\* The integer nearest to m * a / d, ties to even, without forming m * a.
RoundScaled(a, m, d) ==
    LET q == m * (a \div d) + (m * (a % d)) \div d
        r == (m * (a % d)) % d
    IN  IF 2 * r < d THEN q
        ELSE IF 2 * r > d THEN q + 1
        ELSE IF q % 2 = 0 THEN q ELSE q + 1

\* np.log1p(n) in thousandths for n = 0..100, at index n + 1.
Log1pTable ==
    <<
      0, 693, 1099, 1386, 1609, 1792, 1946, 2079, 2197, 2303,
      2398, 2485, 2565, 2639, 2708, 2773, 2833, 2890, 2944, 2996,
      3045, 3091, 3135, 3178, 3219, 3258, 3296, 3332, 3367, 3401,
      3434, 3466, 3497, 3526, 3555, 3584, 3611, 3638, 3664, 3689,
      3714, 3738, 3761, 3784, 3807, 3829, 3850, 3871, 3892, 3912,
      3932, 3951, 3970, 3989, 4007, 4025, 4043, 4060, 4078, 4094,
      4111, 4127, 4143, 4159, 4174, 4190, 4205, 4220, 4234, 4248,
      4263, 4277, 4290, 4304, 4317, 4331, 4344, 4357, 4369, 4382,
      4394, 4407, 4419, 4431, 4443, 4454, 4466, 4477, 4489, 4500,
      4511, 4522, 4533, 4543, 4554, 4564, 4575, 4585, 4595, 4605,
      4615
    >>

\* np.log1p(n) in thousandths, for the arguments the model uses.
Log1pMilli(n) ==
    CASE n <= 100 -> Log1pTable[n + 1]
      [] n = 200 -> 5303
      [] n = 245 -> 5505
      [] n = 784 -> 6666
      [] n = 785 -> 6667
      [] n = 1000 -> 6909
      [] n = 22025 -> 10000
      [] n = 22026 -> 10000
      [] n = 30000 -> 10309

----------------------------------------------------------------------------
(* Comments and the lexical estimators *)

\* The comment texts of the model, with what the TextBlob and VADER
\* libraries and str.split() return for each.
Texts == {"praise", "rant", "thumb", "blank"}

\* TextBlob(text).sentiment.polarity in hundredths, in [-100, 100].
TextBlobPolarity(text) ==
    CASE text = "praise" -> 44
      [] text = "rant" -> 0 - 60
      [] text = "thumb" -> 0
      [] text = "blank" -> 0

\* SentimentIntensityAnalyzer.polarity_scores(text)['compound'] in hundredths.
VaderCompound(text) ==
    CASE text = "praise" -> 80
      [] text = "rant" -> 0 - 90
      [] text = "thumb" -> 20
      [] text = "blank" -> 0

_word_count(text) ==
    CASE text = "praise" -> 13
      [] text = "rant" -> 200
      [] text = "thumb" -> 1
      [] text = "blank" -> 0
      [] text = "[deleted]" -> 1
      [] text = "[removed]" -> 1
      [] text = "two words" -> 2
      [] text = "three words" -> 3
      [] text = "four words" -> 4
      [] text = "five words" -> 5

MAX_MEANINGFUL_WORDS == 75

\* Mutant: the ratio is floored at 0.1 and not capped.
LengthWeightMilli_Uncapped(wc) ==
    IF wc <= 0 THEN 0
    ELSE Max(RoundHalfEven(1000 * Log1pMilli(wc), Log1pMilli(MAX_MEANINGFUL_WORDS)), 100)

\* What _length_weight returns for a text of wc words, in thousandths.
LengthWeightMilli(wc) ==
    IF wc <= 0 THEN 0
    ELSE LET raw == RoundHalfEven(1000 * Log1pMilli(wc), Log1pMilli(MAX_MEANINGFUL_WORDS))
         IN  np_clip(raw, 100, 1000)

\* In tenths.
_length_weight(text) == RoundHalfEven(LengthWeightMilli(_word_count(text)), 100)

\* (polarity + 1) * 50, in twentieths of a point.
analyze_sentiment_textblob(text) == (TextBlobPolarity(text) + 100) * 10

VaderNeutral == 50

analyze_sentiment_vader(v, text) ==
    IF ~v THEN Points(VaderNeutral)
    ELSE (VaderCompound(text) + 100) * 10

----------------------------------------------------------------------------
(* The contextual estimator: analyze_sentiment_claude *)

\* A value of the reply's JSON object under one key, as json.loads gives it.
\*   absent: the key is missing        number: a finite number v
\*   nan:    the literal NaN           huge:   an integer beyond the float range
\*   numstr: a string holding the numeral v
\*   text:   any other string          null:   null
JsonValues ==
    {[tag |-> "absent", v |-> 0], [tag |-> "nan", v |-> 0],
     [tag |-> "huge", v |-> 0], [tag |-> "text", v |-> 0],
     [tag |-> "null", v |-> 0], [tag |-> "numstr", v |-> 75]}
    \cup {[tag |-> "number", v |-> n] : n \in {0 - 40, 35, 250}}

Num(n) == [tag |-> "number", v |-> n]

Tagged(t) == CHOOSE j \in JsonValues : j.tag = t

\* What messages.create and the reply's text can be.
\*   api_error, timeout: the call raises      no_content: message.content is empty
\*   no_json: the text holds no {...}         bad_json: the {...} does not parse
\*   json: the {...} parses to an object with the two values
FailureKinds == {"api_error", "timeout", "no_content", "no_json", "bad_json"}

FailedReply(k) == [kind |-> k, sentiment |-> Tagged("absent"), bias_score |-> Tagged("absent")]

JsonReply(s, b) == [kind |-> "json", sentiment |-> s, bias_score |-> b]

Replies ==
    {FailedReply(k) : k \in FailureKinds}
    \cup {JsonReply(s, Num(35)) : s \in JsonValues}
    \cup {JsonReply(Num(35), b) :
             b \in {Tagged("absent"), Tagged("nan"), Tagged("text"), Num(0 - 40), Num(250)}}

\* dict.get(key, default)
dict_get(value, default) == IF value.tag = "absent" THEN Num(default) ELSE value

\* float(value): the float, or the exception it raises.
py_float(value) ==
    CASE value.tag = "number" -> [exc |-> "none", x |-> value.v]
      [] value.tag = "numstr" -> [exc |-> "none", x |-> value.v]
      [] value.tag = "nan" -> [exc |-> "none", x |-> NaN]
      [] value.tag = "huge" -> [exc |-> "OverflowError", x |-> 0]
      [] value.tag = "text" -> [exc |-> "ValueError", x |-> 0]
      [] value.tag = "null" -> [exc |-> "TypeError", x |-> 0]

MissingSentiment == 50

MissingBias == 50

FallbackBias == 50

\* The try block: the exception it ends with ("none": it ended normally),
\* whether it returned, and the pair it returned.
ClaudeTry(reply) ==
    CASE reply.kind = "api_error" -> [exc |-> "APIError", returned |-> FALSE, sentiment |-> 0, bias |-> 0]
      [] reply.kind = "timeout" -> [exc |-> "APITimeoutError", returned |-> FALSE, sentiment |-> 0, bias |-> 0]
      [] reply.kind = "no_content" -> [exc |-> "IndexError", returned |-> FALSE, sentiment |-> 0, bias |-> 0]
      [] reply.kind = "no_json" -> [exc |-> "none", returned |-> FALSE, sentiment |-> 0, bias |-> 0]
      [] reply.kind = "bad_json" -> [exc |-> "JSONDecodeError", returned |-> FALSE, sentiment |-> 0, bias |-> 0]
      [] reply.kind = "json" ->
            LET sentiment == py_float(dict_get(reply.sentiment, MissingSentiment))
                bias == py_float(dict_get(reply.bias_score, MissingBias))
            IN  IF sentiment.exc # "none"
                  THEN [exc |-> sentiment.exc, returned |-> FALSE, sentiment |-> 0, bias |-> 0]
                ELSE IF bias.exc # "none"
                  THEN [exc |-> bias.exc, returned |-> FALSE, sentiment |-> 0, bias |-> 0]
                ELSE [exc |-> "none", returned |-> TRUE,
                      sentiment |-> np_clip(sentiment.x, 0, 100),
                      bias |-> np_clip(bias.x, 0, 100)]

\* Mutant: the handler catches the parse errors only.
ExceptCatches_ParseErrorsOnly(exc) == exc \in {"JSONDecodeError", "ValueError"}

\* except Exception: every exception of the try block is an Exception.
ExceptCatches(exc) ==
    exc \in {"APIError", "APITimeoutError", "IndexError", "JSONDecodeError",
             "ValueError", "TypeError", "OverflowError"}

\* The polarity of a float of whole points, in twentieths.
ScoreOf(x) == IF IsNaN(x) THEN NaN ELSE Points(x)

\* The fallback pair of the last line.
ClaudeFallback(text) ==
    [exc |-> "none", sentiment |-> analyze_sentiment_textblob(text), bias |-> FallbackBias]

\* (sentiment in twentieths, bias in points), or the exception that leaves.
analyze_sentiment_claude(text, reply) ==
    LET t == ClaudeTry(reply)
    IN  IF t.exc # "none" /\ ~ExceptCatches(t.exc)
          THEN [exc |-> t.exc, sentiment |-> 0, bias |-> 0]
        ELSE IF t.exc = "none" /\ t.returned
          THEN [exc |-> "none", sentiment |-> ScoreOf(t.sentiment), bias |-> t.bias]
        ELSE ClaudeFallback(text)

----------------------------------------------------------------------------
(* Source credibility and per-comment analysis *)

Sources == {"reddit", "youtube", "twitter", "news_comments", "unknown", "blog"}

platform_credibility(source) ==
    CASE source = "reddit" -> 65
      [] source = "youtube" -> 55
      [] source = "twitter" -> 58
      [] source = "news_comments" -> 70
      [] source = "unknown" -> 50
      [] OTHER -> 50

Abs(n) == IF n < 0 THEN 0 - n ELSE n

\* Python's None, where an integer is expected.
None == 0 - 2000000000

\* value or 0
or_zero(value) == IF value = None THEN 0 ELSE value

\* Mutant: the upvote boost is capped at +15, as it was in v1.
SourceCredibilityMilli_V1Cap(source, engagement) ==
    LET base == 1000 * platform_credibility(source)
        upvotes == or_zero(engagement)
        adjusted ==
            IF upvotes > 0 THEN base + Min(15000, (Log1pMilli(upvotes) * 15) \div 10)
            ELSE IF upvotes < 0 - 2
              THEN base + Max(0 - 20000, 0 - (Log1pMilli(Abs(upvotes)) * 2))
            ELSE base
    IN  np_clip(adjusted, 5000, 100000)

\* What calculate_source_credibility returns for a comment of this source
\* and this upvotes field, in thousandths of a point.
SourceCredibilityMilli(source, engagement) ==
    LET base == 1000 * platform_credibility(source)
        upvotes == or_zero(engagement)
        adjusted ==
            IF upvotes > 0 THEN base + Min(10000, (Log1pMilli(upvotes) * 15) \div 10)
            ELSE IF upvotes < 0 - 2
              THEN base + Max(0 - 20000, 0 - (Log1pMilli(Abs(upvotes)) * 2))
            ELSE base
    IN  np_clip(adjusted, 5000, 100000)

\* In whole points: the float is rounded to the nearest point.
calculate_source_credibility(comment) ==
    RoundHalfEven(SourceCredibilityMilli(comment.source, comment.upvotes), 1000)

\* The ensemble weights, in hundredths.
ClaudeWeight == 60

VaderWeight == 25

TextBlobWeight == 15

\* Mutant: a fifth of the ensemble is a fixed neutral 50.
Ensemble_Anchored(claude_score, vader_score, textblob_score) ==
    IF IsNaN(claude_score) THEN NaN
    ELSE (50 * claude_score + 20 * vader_score + 10 * textblob_score
          + 20 * Points(50)) \div 100

\* claude_score * 0.60 + vader_score * 0.25 + textblob_score * 0.15
Ensemble(claude_score, vader_score, textblob_score) ==
    IF IsNaN(claude_score) THEN NaN
    ELSE (ClaudeWeight * claude_score + VaderWeight * vader_score
          + TextBlobWeight * textblob_score) \div 100

\* hashlib.md5(f"{source}:{platform_id}"): one id per (source, platform_id).
CommentId(comment) == <<comment.source, comment.platform_id>>

\* Mutant: the estimator's bias lowers the stored credibility.
analyze_comment_BiasInCredibility(v, comment, reply) ==
    LET textblob_score == analyze_sentiment_textblob(comment.text)
        vader_score == analyze_sentiment_vader(v, comment.text)
        claude == analyze_sentiment_claude(comment.text, reply)
    IN  [exc |-> claude.exc,
         score |->
           [comment_id |-> CommentId(comment),
            text |-> comment.text,
            source |-> comment.source,
            textblob_score |-> textblob_score,
            vader_score |-> vader_score,
            claude_score |-> claude.sentiment,
            bias_score |-> claude.bias,
            source_credibility |->
                IF IsNaN(claude.bias) THEN NaN
                ELSE (calculate_source_credibility(comment) * (200 - claude.bias)) \div 200,
            length_weight |-> _length_weight(comment.text),
            weighted_score |-> Ensemble(claude.sentiment, vader_score, textblob_score),
            upvotes |-> comment.upvotes,
            word_count |-> _word_count(comment.text)]]

analyze_comment(v, comment, reply) ==
    LET textblob_score == analyze_sentiment_textblob(comment.text)
        vader_score == analyze_sentiment_vader(v, comment.text)
        claude == analyze_sentiment_claude(comment.text, reply)
    IN  [exc |-> claude.exc,
         score |->
           [comment_id |-> CommentId(comment),
            text |-> comment.text,
            source |-> comment.source,
            textblob_score |-> textblob_score,
            vader_score |-> vader_score,
            claude_score |-> claude.sentiment,
            bias_score |-> claude.bias,
            source_credibility |-> calculate_source_credibility(comment),
            length_weight |-> _length_weight(comment.text),
            weighted_score |-> Ensemble(claude.sentiment, vader_score, textblob_score),
            upvotes |-> comment.upvotes,
            word_count |-> _word_count(comment.text)]]

----------------------------------------------------------------------------
(* Aggregation: calculate_ariss *)

\* seq[lo] + ... + seq[hi], by halves.
RECURSIVE SumRange(_, _, _)
SumRange(seq, lo, hi) ==
    IF lo > hi THEN 0
    ELSE IF lo = hi THEN seq[lo]
    ELSE LET mid == (lo + hi) \div 2
         IN  SumRange(seq, lo, mid) + SumRange(seq, mid + 1, hi)

\* sum(seq)
SumSeq(seq) == SumRange(seq, 1, Len(seq))

\* The floor 0.01 of a per-comment weight, in units of 0.00001.
WeightFloor == 1000

\* Mutant: the product is not floored.
CommentWeight_NoFloor(s) ==
    IF IsNaN(s.bias_score) THEN NaN
    ELSE s.source_credibility * (100 - s.bias_score) * s.length_weight

\* Mutant: a comment of zero words gets no weight at all.
CommentWeight_ZeroWordsSilenced(s) ==
    IF s.length_weight = 0 THEN 0
    ELSE py_max(WeightFloor, IF IsNaN(s.bias_score) THEN NaN
                             ELSE s.source_credibility * (100 - s.bias_score)
                                  * s.length_weight)

\* Mutant: the bias fraction multiplies the weight instead of discounting it.
CommentWeight_BiasRewarded(s) ==
    py_max(WeightFloor, IF IsNaN(s.bias_score) THEN NaN
                        ELSE s.source_credibility * s.bias_score * s.length_weight)

\* max(0.01, cred_w * bias_w * len_w), in units of 0.00001.
CommentWeight(s) ==
    LET cred_w == s.source_credibility
        bias_w == IF IsNaN(s.bias_score) THEN NaN ELSE 100 - s.bias_score
        len_w == s.length_weight
    IN  py_max(WeightFloor, IF IsNaN(bias_w) THEN NaN ELSE cred_w * bias_w * len_w)

Weights(scores) == [i \in 1..Len(scores) |-> CommentWeight(scores[i])]

RawScores(scores) == [i \in 1..Len(scores) |-> scores[i].weighted_score]

HasNaN(seq) == \E i \in 1..Len(seq) : IsNaN(seq[i])

\* min(list) of Python, a left fold from the first element that takes a
\* later element only when it is smaller: NaN when the first element is
\* NaN, and otherwise the least element that is not NaN.
list_min(seq) ==
    IF IsNaN(seq[1]) THEN NaN
    ELSE CHOOSE x \in {seq[i] : i \in 1..Len(seq)} :
            /\ ~IsNaN(x)
            /\ \A i \in 1..Len(seq) : IsNaN(seq[i]) \/ x <= seq[i]

\* max(list) of Python, likewise.
list_max(seq) ==
    IF IsNaN(seq[1]) THEN NaN
    ELSE CHOOSE x \in {seq[i] : i \in 1..Len(seq)} :
            /\ ~IsNaN(x)
            /\ \A i \in 1..Len(seq) : IsNaN(seq[i]) \/ x >= seq[i]

\* sum(weights)
TotalWeight(weights) == SumSeq(weights)

\* Mutant: the plain mean of the scores, the weights ignored.
WeightedMean_Unweighted(raw_scores, weights, total_w) ==
    IF HasNaN(raw_scores) THEN <<NaN, 1>>
    ELSE <<SumSeq(raw_scores), Len(raw_scores)>>

\* Mutant: the dot product with the weights as they are, not normalised.
WeightedMean_NotNormalised(raw_scores, weights, total_w) ==
    IF HasNaN(raw_scores) THEN <<NaN, 1>>
    ELSE <<SumSeq([i \in 1..Len(raw_scores) |-> raw_scores[i] * weights[i]]), 100000>>

\* np.dot(raw_scores, norm_weights) with norm_weights[i] = weights[i] / total_w:
\* the fraction <<sum of raw_scores[i] * weights[i], total_w>>, in twentieths.
WeightedMean(raw_scores, weights, total_w) ==
    IF HasNaN(raw_scores) THEN <<NaN, 1>>
    ELSE <<SumSeq([i \in 1..Len(raw_scores) |-> raw_scores[i] * weights[i]]), total_w>>

\* np.var(raw_scores), the population variance: the fraction
\* <<n * sum(x^2) - sum(x)^2, n^2>>, in squares of twentieths.
Variance(raw_scores) ==
    LET n == Len(raw_scores)
        sum == SumSeq(raw_scores)
    IN  IF HasNaN(raw_scores) THEN <<NaN, 1>>
        ELSE <<n * SumSeq([i \in 1..n |-> raw_scores[i] * raw_scores[i]]) - sum * sum,
               n * n>>

SaturationPoints == 100

PointsPerComment == 2

\* Mutant: one point per comment.
SizeConfidence_OnePoint(n) == Min(SaturationPoints, n)

\* min(100.0, n * 2.0), in points.
SizeConfidence(n) == Min(SaturationPoints, n * PointsPerComment)

\* max(0.0, 100.0 - variance), as a numerator over 400 * n^2 (points).
VarConfidence(variance, n) ==
    IF IsNaN(variance[1]) THEN 0
    ELSE Max(0, 100 * 400 * n * n - variance[1])

\* round(x, 2) of a score in twentieths: hundredths.
Round2Score(x) == IF IsNaN(x) THEN NaN ELSE 5 * x

SentinelScore == 50

NoResult == [none |-> TRUE]

NoCalc == [none |-> TRUE]

\* round(float(np.mean(seq)), digits): the mean in units of 1/m of the
\* unit of seq, ties to even.
MeanRounded(seq, m) ==
    IF HasNaN(seq) THEN NaN ELSE RoundHalfEven(m * SumSeq(seq), Len(seq))

\* np.std(raw_scores): the square root of the variance, kept as the
\* variance it is the root of.
np_std(variance) == [sqrt_of |-> variance]

\* The locals of a call on a non-empty list, up to the division by total_w.
AggWeights(scores) ==
    LET weights == Weights(scores)
    IN  [weights |-> weights, total_w |-> TotalWeight(weights)]

\* The body of calculate_ariss after the empty-list case.
AggregateNonEmpty(scores) ==
    LET raw_scores == RawScores(scores)
        w == AggWeights(scores)
        n == Len(raw_scores)
    IN  IF w.total_w = 0
          THEN [exc |-> "ZeroDivisionError", calc |-> w, result |-> NoResult]
        ELSE
          LET ariss_score == WeightedMean(raw_scores, w.weights, w.total_w)
              variance == Variance(raw_scores)
              size_conf == SizeConfidence(n)
              var_conf == VarConfidence(variance, n)
              \* (size_conf + var_conf) / 2.0, over 2 * 400 * n^2
              confidence == <<size_conf * 400 * n * n + var_conf, 2 * 400 * n * n>>
          IN  [exc |-> "none",
               calc |-> [weights |-> w.weights, total_w |-> w.total_w,
                         norm_weights |-> [i \in 1..n |-> <<w.weights[i], w.total_w>>],
                         ariss_score |-> ariss_score, variance |-> variance,
                         size_conf |-> size_conf, var_conf |-> var_conf,
                         confidence |-> confidence],
               result |->
                 [ariss_score |->
                    IF IsNaN(ariss_score[1]) THEN NaN
                    ELSE RoundScaled(ariss_score[1], 5, ariss_score[2]),
                  confidence |-> RoundScaled(confidence[1], 100, confidence[2]),
                  sample_size |-> n,
                  variance |->
                    IF IsNaN(variance[1]) THEN NaN
                    ELSE RoundHalfEven(variance[1], 4 * variance[2]),
                  mean_bias |->
                    MeanRounded([i \in 1..n |-> scores[i].bias_score], 100),
                  mean_credibility |->
                    MeanRounded([i \in 1..n |-> scores[i].source_credibility], 100),
                  mean_length_weight |->
                    MeanRounded([i \in 1..n |-> scores[i].length_weight], 100),
                  mean_word_count |->
                    MeanRounded([i \in 1..n |-> scores[i].word_count], 10),
                  std_dev |-> np_std(variance),
                  min_score |-> Round2Score(list_min(raw_scores)),
                  max_score |-> Round2Score(list_max(raw_scores)),
                  timestamp |-> "now",
                  source_breakdown |->
                    [src \in {scores[i].source : i \in 1..n} |->
                       Cardinality({i \in 1..n : scores[i].source = src})]]]

\* The result of the empty-list case.
SentinelResult ==
    [ariss_score |-> 100 * SentinelScore, confidence |-> 0, sample_size |-> 0,
     error |-> "No data available"]

\* Mutant: no empty-list case; min() of the empty list raises.
calculate_ariss_NoEmptyCase(scores) ==
    IF scores = <<>>
      THEN [exc |-> "ValueError", calc |-> NoCalc, result |-> NoResult]
    ELSE AggregateNonEmpty(scores)

calculate_ariss(scores) ==
    IF scores = <<>>
      THEN [exc |-> "none", calc |-> NoCalc, result |-> SentinelResult]
    ELSE AggregateNonEmpty(scores)

----------------------------------------------------------------------------
(* The scoring run: analyze_comment for each comment, then calculate_ariss
   (demo_ariss and the module's command-line entry) *)

SeqsUpTo(S, n) == UNION {[1..k -> S] : k \in 0..n}

CommentKinds ==
    {[text |-> "praise", source |-> "reddit", platform_id |-> 1, upvotes |-> 245],
     [text |-> "rant", source |-> "youtube", platform_id |-> 2, upvotes |-> 0 - 12],
     [text |-> "thumb", source |-> "twitter", platform_id |-> 3, upvotes |-> 5],
     [text |-> "blank", source |-> "blog", platform_id |-> 4, upvotes |-> 0]}

\* The comment lists of a run: distinct comments, by ascending platform id.
CommentLists ==
    {seq \in SeqsUpTo(CommentKinds, MaxComments) :
        \A i, j \in 1..Len(seq) : i < j => seq[i].platform_id < seq[j].platform_id}

NoCall == [none |-> TRUE]

Init ==
    /\ vader \in BOOLEAN
    /\ comments \in CommentLists
    /\ replies = <<>>
    /\ sentiment_scores = <<>>
    /\ raised = "none"
    /\ pc = "analyze"
    /\ calc = NoCalc
    /\ ariss_result = NoResult
    /\ prev_call = NoCall
    /\ fn_arg = NoValue
    /\ fn_ret = NoValue
    /\ NoApp

\* One pass of the loop: score = scorer.analyze_comment(comment, subject);
\* sentiment_scores.append(score).
AnalyzeComment(reply) ==
    /\ pc = "analyze"
    /\ Len(sentiment_scores) < Len(comments)
    /\ LET r == analyze_comment(vader, comments[Len(sentiment_scores) + 1], reply)
       IN  /\ replies' = Append(replies, reply)
           /\ IF r.exc # "none"
                THEN /\ raised' = r.exc
                     /\ pc' = "crashed"
                     /\ UNCHANGED sentiment_scores
                ELSE /\ sentiment_scores' = Append(sentiment_scores, r.score)
                     /\ UNCHANGED <<raised, pc>>
    /\ UNCHANGED <<vader, comments, calc, ariss_result, prev_call>>
    /\ UNCHANGED fnvars
    /\ UNCHANGED appvars

\* The effect of a call calculate_ariss(scores) on the caller.
Call(scores, after) ==
    LET r == calculate_ariss(scores)
    IN  /\ calc' = r.calc
        /\ ariss_result' = r.result
        /\ raised' = r.exc
        /\ pc' = IF r.exc = "none" THEN after ELSE "crashed"

\* ariss_result = scorer.calculate_ariss(sentiment_scores), after the loop.
CalculateAriss ==
    /\ pc = "analyze"
    /\ Len(sentiment_scores) = Len(comments)
    /\ Call(sentiment_scores, "done")
    /\ UNCHANGED <<vader, comments, replies, sentiment_scores, prev_call>>
    /\ UNCHANGED fnvars
    /\ UNCHANGED appvars

Next ==
    \/ \E reply \in Replies : AnalyzeComment(reply)
    \/ CalculateAriss

Spec == Init /\ [][Next]_vars

----------------------------------------------------------------------------
(* calculate_ariss on its own: called on a list of scored comments, then
   called again on the list with one comment added or one replaced *)

MaxList == 3     \* scored comments of a freely chosen list

MaxBulk == 51    \* scored comments of a long list

Scored(src, score, bias, cred, lw, wc) ==
    [source |-> src, weighted_score |-> score, bias_score |-> bias,
     source_credibility |-> cred, length_weight |-> lw, word_count |-> wc]

ScoredKinds ==
    {Scored("reddit", Points(20), 0, 100, 10, 80),
     Scored("reddit", Points(50), 0, 100, 10, 90),
     Scored("youtube", Points(80), 0, 100, 10, 75),
     Scored("youtube", Points(80), 80, 50, 2, 2),
     Scored("twitter", Points(100), 100, 65, 5, 7),
     Scored("twitter", 710, 35, 58, 3, 3),
     Scored("blog", Points(0), 50, 55, 0, 0)}

\* The comments of the long lists: low scores and low weights.
BulkKinds ==
    {Scored("reddit", Points(10), 80, 50, 10, 75),
     Scored("youtube", Points(30), 0, 5, 1, 1)}

BulkList(a, b, k) == [i \in 1..k |-> IF i % 2 = 1 THEN a ELSE b]

AggInputs ==
    SeqsUpTo(ScoredKinds, MaxList)
    \cup {BulkList(a, b, k) : a \in BulkKinds, b \in BulkKinds, k \in (MaxList + 1)..MaxBulk}

InitAgg ==
    /\ vader = TRUE
    /\ comments = <<>>
    /\ replies = <<>>
    /\ sentiment_scores \in AggInputs
    /\ raised = "none"
    /\ pc = "input"
    /\ calc = NoCalc
    /\ ariss_result = NoResult
    /\ prev_call = NoCall
    /\ fn_arg = NoValue
    /\ fn_ret = NoValue
    /\ NoApp

\* scorer.calculate_ariss(sentiment_scores)
AggCall ==
    /\ pc = "input"
    /\ Call(sentiment_scores, "called")
    /\ UNCHANGED <<vader, comments, replies, sentiment_scores, prev_call>>
    /\ UNCHANGED fnvars
    /\ UNCHANGED appvars

\* The comments a list may be changed by: any for a short list, the
\* low ones for a long list.
KindsFor(scores) == IF Len(scores) <= MaxList THEN ScoredKinds ELSE BulkKinds

Recall(scores) ==
    /\ prev_call' = [scores |-> sentiment_scores, calc |-> calc, result |-> ariss_result]
    /\ sentiment_scores' = scores
    /\ Call(scores, "recalled")
    /\ UNCHANGED <<vader, comments, replies>>
    /\ UNCHANGED fnvars
    /\ UNCHANGED appvars

\* A second call, on the list with one more scored comment.
AggAddComment(s) ==
    /\ pc = "called"
    /\ Len(sentiment_scores) <= MaxBulk
    /\ s \in KindsFor(sentiment_scores)
    /\ Recall(Append(sentiment_scores, s))

\* A second call, on the list with one scored comment replaced.
AggReplaceComment(i, s) ==
    /\ pc = "called"
    /\ i \in 1..Len(sentiment_scores)
    /\ i <= MaxList
    /\ s \in KindsFor(sentiment_scores)
    /\ Recall([sentiment_scores EXCEPT ![i] = s])

NextAgg ==
    \/ AggCall
    \/ \E s \in ScoredKinds \cup BulkKinds : AggAddComment(s)
    \/ \E i \in 1..MaxList, s \in ScoredKinds \cup BulkKinds : AggReplaceComment(i, s)

SpecAgg == InitAgg /\ [][NextAgg]_vars

----------------------------------------------------------------------------
(* Properties of calculate_ariss, checked under SpecAgg *)

\* A call of calculate_ariss on the current list has ended.
AggCalled == pc \in {"called", "recalled", "crashed"}

AggCalledNonEmpty == AggCalled /\ sentiment_scores # <<>>

\* The per-comment weight as the specification states it, in units of 0.00001:
\* max(0.01, credibility/100 * length_weight * (1 - bias/100)).
StatedWeight(s) ==
    Max(1000, s.source_credibility * s.length_weight * (100 - s.bias_score))

\* sum(score_i * w_i), in twentieths of a point times 0.00001.
StatedWeightedSum(scores) ==
    SumSeq([i \in 1..Len(scores) |-> scores[i].weighted_score * StatedWeight(scores[i])])

\* sum(w_i)
StatedWeightTotal(scores) == SumSeq([i \in 1..Len(scores) |-> StatedWeight(scores[i])])

\* x hundredths is exactly m * a / d.
ExactlyScaled(x, a, m, d) ==
    /\ (m * (a % d)) % d = 0
    /\ x = m * (a \div d) + (m * (a % d)) \div d

\* x hundredths is m * a / d rounded to a nearest hundredth.
NearestScaled(x, a, m, d) ==
    LET q == m * (a \div d) + (m * (a % d)) \div d
        r == (m * (a % d)) % d
    IN  \/ x = q /\ 2 * r <= d
        \/ x = q + 1 /\ 2 * r >= d

EqualWeights(scores) ==
    \A i, j \in 1..Len(scores) : StatedWeight(scores[i]) = StatedWeight(scores[j])

\* C1 as stated: for every non-empty list the returned ariss_score equals the
\* weighted mean sum(score_i * w_i) / sum(w_i) of the ensemble scores.
C1_ExactWeightedMean ==
    AggCalledNonEmpty =>
        /\ raised = "none"
        /\ ExactlyScaled(ariss_result.ariss_score, StatedWeightedSum(sentiment_scores),
                         5, StatedWeightTotal(sentiment_scores))

\* C1 amended: for every non-empty list the returned ariss_score is the
\* weighted mean sum(score_i * w_i) / sum(w_i) rounded to two decimals; with
\* equal weights it is the arithmetic mean rounded to two decimals, and the
\* scores 20, 50, 80 with equal weights give exactly 50.
C1_RoundedWeightedMean ==
    AggCalledNonEmpty =>
        /\ raised = "none"
        /\ NearestScaled(ariss_result.ariss_score, StatedWeightedSum(sentiment_scores),
                         5, StatedWeightTotal(sentiment_scores))
        /\ EqualWeights(sentiment_scores) =>
              NearestScaled(ariss_result.ariss_score,
                            SumSeq(RawScores(sentiment_scores)), 5, Len(sentiment_scores))
        /\ (EqualWeights(sentiment_scores)
            /\ RawScores(sentiment_scores) = <<Points(20), Points(50), Points(80)>>) =>
              ariss_result.ariss_score = 5000

C1_Witness ==
    /\ pc = "called"
    /\ RawScores(sentiment_scores) = <<Points(20), Points(50), Points(80)>>
    /\ EqualWeights(sentiment_scores)
    /\ ariss_result.ariss_score = 5000

\* C2: calculate_ariss on the empty list does not raise and returns the
\* sentinel: ariss_score 50, confidence 0, sample_size 0 and the 'error' entry.
C2_EmptySentinel ==
    (AggCalled /\ sentiment_scores = <<>>) =>
        /\ raised = "none"
        /\ pc # "crashed"
        /\ ariss_result.ariss_score = 5000
        /\ ariss_result.confidence = 0
        /\ ariss_result.sample_size = 0
        /\ "error" \in DOMAIN ariss_result

C2_Witness ==
    /\ pc = "called"
    /\ sentiment_scores = <<>>
    /\ "error" \in DOMAIN ariss_result
    /\ ariss_result.sample_size = 0

\* C6: every per-comment weight equals max(0.01, credibility/100 *
\* length_weight * (1 - bias/100)) and is at least 0.01, so for a non-empty
\* list the total is positive, the normalisation does not divide by zero, and
\* the normalised weights sum to 1.
C6_WeightsFloored ==
    AggCalledNonEmpty =>
        /\ raised = "none"
        /\ \A i \in 1..Len(sentiment_scores) :
              /\ calc.weights[i] = StatedWeight(sentiment_scores[i])
              /\ calc.weights[i] >= 1000
              /\ calc.norm_weights[i][2] = calc.total_w
        /\ calc.total_w > 0
        /\ SumSeq([i \in 1..Len(sentiment_scores) |-> calc.norm_weights[i][1]])
             = calc.total_w

C6_Witness ==
    /\ pc = "called"
    /\ \E i, j \in 1..Len(sentiment_scores) :
          /\ sentiment_scores[i].bias_score = 100
          /\ sentiment_scores[j].length_weight = 0
          /\ calc.weights[i] = 1000
          /\ calc.weights[j] = 1000
    /\ calc.total_w > 0

RECURSIVE GCD(_, _)
GCD(a, b) == IF b = 0 THEN a ELSE GCD(b, a % b)

\* Two fractions of positive denominator are the same number.
SameFraction(f, g) ==
    LET df == GCD(f[1], f[2])
        dg == GCD(g[1], g[2])
    IN  /\ f[1] \div df = g[1] \div dg
        /\ f[2] \div df = g[2] \div dg

\* The latest call was on the previous call's non-empty list with one
\* comment of zero words added.
ZeroWordsAdded ==
    /\ pc = "recalled"
    /\ prev_call.scores # <<>>
    /\ Len(sentiment_scores) = Len(prev_call.scores) + 1
    /\ SubSeq(sentiment_scores, 1, Len(prev_call.scores)) = prev_call.scores
    /\ sentiment_scores[Len(sentiment_scores)].length_weight = 0
    /\ sentiment_scores[Len(sentiment_scores)].word_count = 0

\* C7 as stated: adding a comment of zero words to a non-empty list raises
\* sample_size by one and leaves the weighted mean (ariss_score before
\* rounding) unchanged.
C7_ZeroWordsNoInfluence ==
    ZeroWordsAdded =>
        /\ ariss_result.sample_size = prev_call.result.sample_size + 1
        /\ SameFraction(calc.ariss_score, prev_call.calc.ariss_score)

\* C7 amended: adding a comment of zero words to a non-empty list raises
\* sample_size by one, and the comment enters the weighted mean with the
\* floor weight 0.01: the mean becomes (S + 0.01 * score) / (T + 0.01) for the
\* previous weighted sum S and weight total T, which is the previous mean
\* only when the comment's score equals it.
C7_ZeroWordsFloorWeight ==
    ZeroWordsAdded =>
        LET n == Len(sentiment_scores)
            x == sentiment_scores[n].weighted_score
            S == prev_call.calc.ariss_score[1]
            T == prev_call.calc.ariss_score[2]
        IN  /\ ariss_result.sample_size = prev_call.result.sample_size + 1
            /\ calc.weights[n] = 1000
            /\ calc.ariss_score = <<S + x * 1000, T + 1000>>
            /\ SameFraction(calc.ariss_score, prev_call.calc.ariss_score) <=> (x * T = S)

C7_Witness ==
    /\ ZeroWordsAdded
    /\ calc.weights[Len(sentiment_scores)] = 1000
    /\ ~SameFraction(calc.ariss_score, prev_call.calc.ariss_score)
    /\ ariss_result.ariss_score # prev_call.result.ariss_score

ScoresInRange(scores) ==
    \A i \in 1..Len(scores) :
        scores[i].weighted_score >= 0 /\ scores[i].weighted_score <= Points(100)

\* C8: for a non-empty list whose ensemble scores lie in [0, 100], the
\* returned ariss_score lies in [0, 100], between the reported min_score and
\* max_score.
C8_IndexWithinScores ==
    (AggCalledNonEmpty /\ ScoresInRange(sentiment_scores)) =>
        /\ raised = "none"
        /\ ariss_result.ariss_score >= 0
        /\ ariss_result.ariss_score <= 10000
        /\ ariss_result.min_score <= ariss_result.ariss_score
        /\ ariss_result.ariss_score <= ariss_result.max_score
        /\ \A i \in 1..Len(sentiment_scores) :
              /\ ariss_result.min_score <= 5 * sentiment_scores[i].weighted_score
              /\ ariss_result.max_score >= 5 * sentiment_scores[i].weighted_score

C8_Witness ==
    /\ pc = "called"
    /\ ScoresInRange(sentiment_scores)
    /\ ~EqualWeights(sentiment_scores)
    /\ ariss_result.min_score < ariss_result.ariss_score
    /\ ariss_result.ariss_score < ariss_result.max_score

\* n^2 times the population variance of the scores, as the sum of the
\* squared differences of every pair.
PairwiseSquares(x) ==
    SumSeq([i \in 1..Len(x) |->
              SumSeq([j \in 1..Len(x) |->
                        IF j > i THEN (x[i] - x[j]) * (x[i] - x[j]) ELSE 0])])

\* (min(100, 2n) + max(0, 100 - variance)) / 2 as a fraction, for n scores
\* of variance v / n^2 squared twentieths.
StatedConfidence(n, v) ==
    <<Min(100, 2 * n) * 400 * n * n + Max(0, 100 * 400 * n * n - v), 2 * 400 * n * n>>

\* C9 as stated: for a non-empty list of n comments, confidence equals
\* (min(100, 2n) + max(0, 100 - variance)) / 2.
C9_ExactConfidence ==
    AggCalledNonEmpty =>
        LET f == StatedConfidence(Len(sentiment_scores),
                                  PairwiseSquares(RawScores(sentiment_scores)))
        IN  /\ raised = "none"
            /\ ExactlyScaled(ariss_result.confidence, f[1], 100, f[2])

\* The latest call was on a list as long as the previous call's.
SameSizeRecalled ==
    /\ pc = "recalled"
    /\ prev_call.scores # <<>>
    /\ Len(sentiment_scores) = Len(prev_call.scores)

\* C9 amended: for a non-empty list of n comments, confidence is
\* (min(100, 2n) + max(0, 100 - variance)) / 2 rounded to two decimals; it
\* lies in [0, 100]; the sample-size term is min(100, 2n), does not decrease
\* when a comment is added, and is 100 exactly when n >= 50; and of two
\* lists of equal length the one of larger variance has no larger confidence.
C9_RoundedConfidence ==
    AggCalledNonEmpty =>
        LET n == Len(sentiment_scores)
            f == StatedConfidence(n, PairwiseSquares(RawScores(sentiment_scores)))
        IN  /\ raised = "none"
            /\ calc.variance = <<PairwiseSquares(RawScores(sentiment_scores)), n * n>>
            /\ NearestScaled(ariss_result.confidence, f[1], 100, f[2])
            /\ ariss_result.confidence >= 0
            /\ ariss_result.confidence <= 10000
            /\ calc.size_conf = Min(100, 2 * n)
            /\ calc.size_conf = 100 <=> n >= 50
            /\ (pc = "recalled" /\ prev_call.scores # <<>> /\ n >= Len(prev_call.scores)) =>
                  calc.size_conf >= prev_call.calc.size_conf
            /\ (SameSizeRecalled /\ calc.variance[1] >= prev_call.calc.variance[1]) =>
                  ariss_result.confidence <= prev_call.result.confidence

C9_Witness ==
    /\ pc = "recalled"
    /\ Len(prev_call.scores) = 49
    /\ Len(sentiment_scores) = 50
    /\ prev_call.calc.size_conf = 98
    /\ calc.size_conf = 100
    /\ calc.variance[1] > 0
    /\ ariss_result.confidence > 5000

----------------------------------------------------------------------------
(* Properties of a scoring run, checked under Spec *)

ScoredIdx == 1..Len(sentiment_scores)

\* The reply left the try block without a return: the call raised or timed
\* out, the text held no JSON object, the object did not parse, or float()
\* refused a field.
NotNumeric(value) == value.tag \in {"text", "null"}

ClaudeFailed(reply) ==
    \/ reply.kind \in FailureKinds
    \/ reply.kind = "json"
       /\ \/ NotNumeric(reply.sentiment)
          \/ NotNumeric(reply.bias_score)

\* C3 (as stated): when the contextual estimator fails for a comment, the
\* ensemble value stored in weighted_score equals the comment's TextBlob score
\* exactly, whatever the other estimators return.
C3_ExactFallback ==
    \A i \in ScoredIdx :
        ClaudeFailed(replies[i])
            => sentiment_scores[i].weighted_score = sentiment_scores[i].textblob_score

\* C4: analyze_sentiment_claude never raises to its caller; when the call
\* raises or times out, the reply holds no JSON object, the JSON does not
\* parse, or a field is not numeric, it returns (TextBlob score, 50) and the
\* run goes on to score the remaining comments.
C4_FallbackNoRaise ==
    /\ raised = "none"
    /\ pc # "crashed"
    /\ Len(replies) = Len(sentiment_scores)
    /\ \A i \in ScoredIdx :
          ClaudeFailed(replies[i])
              => /\ sentiment_scores[i].claude_score
                       = analyze_sentiment_textblob(comments[i].text)
                 /\ sentiment_scores[i].bias_score = 50
    /\ pc = "done" => Len(sentiment_scores) = Len(comments)

\* A failed first reply, and the second comment scored after it.
C4_Witness ==
    /\ Len(sentiment_scores) = 2
    /\ replies[1].kind = "timeout"
    /\ replies[2].kind = "json"
    /\ NotNumeric(replies[2].sentiment)
    /\ pc = "done"

\* x brought to the nearest bound of [0, 100].
Clamped(x) == IF x < 0 THEN 0 ELSE IF x > 100 THEN 100 ELSE x

\* C5 (as stated): whatever numbers the reply contains, the polarity and the
\* bias returned both lie in [0, 100]; an out-of-range value is clamped to
\* the nearest bound and an in-range value is returned unchanged.
C5_AlwaysClamped ==
    \A i \in ScoredIdx :
        LET s == sentiment_scores[i]
            r == replies[i]
        IN  /\ 0 <= s.claude_score /\ s.claude_score <= Points(100)
            /\ 0 <= s.bias_score /\ s.bias_score <= 100
            /\ (r.kind = "json" /\ r.sentiment.tag = "number" /\ r.bias_score.tag = "number")
                  => /\ s.claude_score = Points(Clamped(r.sentiment.v))
                     /\ s.bias_score = Clamped(r.bias_score.v)
            /\ (r.kind = "json" /\ r.sentiment.tag = "huge" /\ r.bias_score.tag = "number")
                  => /\ s.claude_score = Points(100)
                     /\ s.bias_score = Clamped(r.bias_score.v)

Min3(a, b, c) == Min(a, Min(b, c))

Max3(a, b, c) == Max(a, Max(b, c))

InScoreRange(x) == 0 <= x /\ x <= Points(100)

\* C10: the ensemble score of a comment is 0.60 * contextual + 0.25 * VADER
\* + 0.15 * TextBlob, the weights sum to 1 with the contextual one largest,
\* and the score lies between the smallest and the largest of the three
\* estimates and in [0, 100] whenever the three estimates do.
C10_EnsembleConvex ==
    /\ ClaudeWeight + VaderWeight + TextBlobWeight = 100
    /\ ClaudeWeight > VaderWeight /\ ClaudeWeight > TextBlobWeight
    /\ \A i \in ScoredIdx :
          LET s == sentiment_scores[i]
              c == s.claude_score
              v == s.vader_score
              t == s.textblob_score
          IN  (InScoreRange(c) /\ InScoreRange(v) /\ InScoreRange(t))
                  => /\ 100 * s.weighted_score = 60 * c + 25 * v + 15 * t
                     /\ Min3(c, v, t) <= s.weighted_score
                     /\ s.weighted_score <= Max3(c, v, t)
                     /\ InScoreRange(s.weighted_score)

\* A comment the contextual estimator scored, with three different estimates.
C10_Witness ==
    \E i \in ScoredIdx :
        LET s == sentiment_scores[i]
        IN  /\ replies[i].kind = "json"
            /\ replies[i].sentiment.tag = "number"
            /\ s.claude_score # s.vader_score
            /\ s.vader_score # s.textblob_score
            /\ s.claude_score # s.textblob_score
            /\ Min3(s.claude_score, s.vader_score, s.textblob_score) < s.weighted_score
            /\ s.weighted_score < Max3(s.claude_score, s.vader_score, s.textblob_score)

\* C11 (as stated): in every configuration, VADER unavailable included, the
\* ensemble of a comment is built only from polarity values the estimators
\* computed from the comment's text: the value blended with the VADER weight
\* is VADER's polarity of the text, never a constant neutral 50.
C11_NoNeutralBlend ==
    \A i \in ScoredIdx :
        LET s == sentiment_scores[i]
            text == comments[i].text
        IN  /\ s.vader_score = (VaderCompound(text) + 100) * 10
            /\ s.textblob_score = (TextBlobPolarity(text) + 100) * 10
            /\ InScoreRange(s.claude_score)
                  => 100 * s.weighted_score
                        = 60 * s.claude_score + 25 * ((VaderCompound(text) + 100) * 10)
                          + 15 * s.textblob_score

\* The values the weight is compared over: credibility and bias in points,
\* length weight in tenths, each list ascending.
CredibilityGrid == <<5, 50, 65, 100>>

BiasGrid == <<0, 35, 80, 100>>

LengthWeightGrid == <<0, 1, 2, 5, 10>>

\* f does not decrease (dir = 1) or does not increase (dir = -1) along grid.
MonotoneAlong(grid, f(_), dir) ==
    \A k \in 1..(Len(grid) - 1) : dir * (f(grid[k + 1]) - f(grid[k])) >= 0

StrongComment(s) ==
    s.source_credibility = 100 /\ s.bias_score = 0 /\ s.length_weight = 10

WeakComment(s) ==
    s.source_credibility = 50 /\ s.bias_score = 80 /\ s.length_weight = 2

\* C12: a comment with credibility 100, bias 0 and length weight 1.0 has a
\* strictly greater normalised weight than an otherwise identical comment
\* with credibility 50, bias 80 and length weight 0.2; and the weight of a
\* comment does not decrease when its credibility or its length weight is
\* raised and does not increase when its bias is raised.
C12_WeightOrdering ==
    AggCalledNonEmpty =>
        /\ raised = "none"
        /\ \A i, j \in 1..Len(sentiment_scores) :
              (StrongComment(sentiment_scores[i]) /\ WeakComment(sentiment_scores[j]))
                  => /\ calc.norm_weights[i][2] = calc.norm_weights[j][2]
                     /\ calc.norm_weights[i][1] > calc.norm_weights[j][1]
        /\ \A i \in 1..Min(Len(sentiment_scores), MaxList) :
              LET s == sentiment_scores[i]
                  ByCredibility(c) == CommentWeight([s EXCEPT !.source_credibility = c])
                  ByBias(b) == CommentWeight([s EXCEPT !.bias_score = b])
                  ByLength(l) == CommentWeight([s EXCEPT !.length_weight = l])
              IN  /\ calc.weights[i] = CommentWeight(s)
                  /\ MonotoneAlong(CredibilityGrid, ByCredibility, 1)
                  /\ MonotoneAlong(BiasGrid, ByBias, 0 - 1)
                  /\ MonotoneAlong(LengthWeightGrid, ByLength, 1)
        /\ \A i, j \in 1..Min(Len(sentiment_scores), MaxList) :
              LET a == sentiment_scores[i]
                  b == sentiment_scores[j]
              IN  (/\ a.source_credibility >= b.source_credibility
                   /\ a.length_weight >= b.length_weight
                   /\ a.bias_score <= b.bias_score)
                      => calc.weights[i] >= calc.weights[j]

\* Both comments of the scenario in one list, with the same ensemble score.
C12_Witness ==
    /\ AggCalledNonEmpty
    /\ raised = "none"
    /\ \E i, j \in 1..Len(sentiment_scores) :
          /\ StrongComment(sentiment_scores[i])
          /\ WeakComment(sentiment_scores[j])
          /\ sentiment_scores[i].weighted_score = sentiment_scores[j].weighted_score
          /\ sentiment_scores[i].source = sentiment_scores[j].source

----------------------------------------------------------------------------
(* _length_weight applied on its own to every word count *)

MaxWords == 90    \* word counts 0..MaxWords

\* The variables of a scoring run, when only a helper is applied.
NoRun ==
    /\ vader = TRUE
    /\ comments = <<>>
    /\ replies = <<>>
    /\ sentiment_scores = <<>>
    /\ raised = "none"
    /\ calc = NoCalc
    /\ ariss_result = NoResult

runvars == <<vader, comments, replies, sentiment_scores, raised, calc, ariss_result>>

InitLen ==
    /\ NoRun
    /\ pc = "input"
    /\ prev_call = NoCall
    /\ fn_arg \in 0..MaxWords
    /\ fn_ret = NoValue
    /\ NoApp

\* wc = _word_count(text); the rest of _length_weight.
LengthWeightCall ==
    /\ pc = "input"
    /\ fn_ret' = LengthWeightMilli(fn_arg)
    /\ pc' = "returned"
    /\ UNCHANGED <<fn_arg, prev_call>>
    /\ UNCHANGED runvars
    /\ UNCHANGED appvars

\* The same for a text of one more word.
LengthWeightOneMore ==
    /\ pc = "returned"
    /\ fn_arg < MaxWords
    /\ prev_call' = [arg |-> fn_arg, ret |-> fn_ret]
    /\ fn_arg' = fn_arg + 1
    /\ fn_ret' = LengthWeightMilli(fn_arg + 1)
    /\ UNCHANGED pc
    /\ UNCHANGED runvars
    /\ UNCHANGED appvars

NextLen ==
    \/ LengthWeightCall
    \/ LengthWeightOneMore

SpecLen == InitLen /\ [][NextLen]_vars

----------------------------------------------------------------------------
(* calculate_source_credibility applied on its own *)

MaxVotes == 40    \* every engagement value in -MaxVotes..MaxVotes

\* Engagement values beyond the dense range, around the two caps.
FarVotes == {245, 784, 785, 1000, 22025, 22026, 30000}

Engagements == ((0 - MaxVotes)..MaxVotes) \cup FarVotes \cup {0 - e : e \in FarVotes}

\* The next larger engagement value of the model.
NextEngagement(e) ==
    CHOOSE x \in Engagements : x > e /\ \A y \in Engagements : y > e => x <= y

InitCred ==
    /\ NoRun
    /\ pc = "input"
    /\ prev_call = NoCall
    /\ fn_arg \in [source : Sources, upvotes : Engagements \cup {None}]
    /\ fn_ret = NoValue
    /\ NoApp

\* scorer.calculate_source_credibility(comment)
CredibilityCall ==
    /\ pc = "input"
    /\ fn_ret' = SourceCredibilityMilli(fn_arg.source, fn_arg.upvotes)
    /\ pc' = "returned"
    /\ UNCHANGED <<fn_arg, prev_call>>
    /\ UNCHANGED runvars
    /\ UNCHANGED appvars

\* The same for a comment of the same source with more engagement; a
\* missing value is followed by the value 1.
CredibilityMoreEngagement ==
    /\ pc = "returned"
    /\ or_zero(fn_arg.upvotes) < 30000
    /\ LET e == NextEngagement(or_zero(fn_arg.upvotes))
       IN  /\ prev_call' = [arg |-> fn_arg, ret |-> fn_ret]
           /\ fn_arg' = [fn_arg EXCEPT !.upvotes = e]
           /\ fn_ret' = SourceCredibilityMilli(fn_arg.source, e)
    /\ UNCHANGED pc
    /\ UNCHANGED runvars
    /\ UNCHANGED appvars

NextCred ==
    \/ CredibilityCall
    \/ CredibilityMoreEngagement

SpecCred == InitCred /\ [][NextCred]_vars

\* C14: for every source and every engagement value (positive, zero,
\* negative or missing) calculate_source_credibility returns a value in
\* [5, 100] that does not decrease when the engagement grows; the bonus is
\* at most +10 and the penalty at most -20 on the platform's base score.
C14_CredibilityBounds ==
    pc = "returned" =>
        LET base == 1000 * platform_credibility(fn_arg.source)
        IN  /\ 5000 <= fn_ret /\ fn_ret <= 100000
            /\ fn_ret - base <= 10000
            /\ fn_ret - base >= 0 - 20000
            /\ fn_arg.upvotes = None => fn_ret = base
            /\ prev_call # NoCall
                  => /\ or_zero(prev_call.arg.upvotes) < fn_arg.upvotes
                     /\ prev_call.arg.source = fn_arg.source
                     /\ prev_call.ret <= fn_ret

\* The capped bonus, reached from a smaller one.
C14_Witness ==
    /\ pc = "returned"
    /\ prev_call # NoCall
    /\ fn_arg.source = "reddit"
    /\ fn_arg.upvotes = 785
    /\ fn_ret = 75000
    /\ prev_call.ret < 75000

----------------------------------------------------------------------------
(* The scrapers: RedditScraper, YouTubeScraper, TwitterScraper *)

\* An item of an API response: its platform id, its text after strip() and
\* its score or like count.  The text "no_body" stands for a Reddit object
\* without a body attribute, "blank" for an empty or all-blank text.
Item(id, text) == [id |-> id, text |-> text, likes |-> 5]

\* Comment(text=..., source=..., platform_id=..., upvotes=...)
CommentOf(item, source) ==
    [text |-> item.text, source |-> source, platform_id |-> item.id,
     upvotes |-> item.likes]

NothingCollected == [comments |-> <<>>, seen_ids |-> {}]

\* seen_ids.add(id); comments.append(Comment(...))
Collected(acc, item, source) ==
    [comments |-> Append(acc.comments, CommentOf(item, source)),
     seen_ids |-> acc.seen_ids \cup {item.id}]

\* Mutant: the list is returned whole.
Truncated_NoSlice(list, limit) == list

\* comments[:limit]
Truncated(list, limit) == SubSeq(list, 1, Min(limit, Len(list)))

RedditMinWords == 3

YouTubeMinWords == 4

TwitterMinWords == 5

\* The for loop over the pool of one search ordering, from item k on.
RECURSIVE RedditPool(_, _, _, _)
RedditPool(pool, k, acc, limit) ==
    IF k > Len(pool) THEN acc
    ELSE LET comment == pool[k]
         IN  IF Len(acc.comments) >= limit THEN acc
             ELSE IF comment.text = "no_body" THEN RedditPool(pool, k + 1, acc, limit)
             ELSE IF comment.id \in acc.seen_ids THEN RedditPool(pool, k + 1, acc, limit)
             ELSE IF \/ comment.text \in {"[deleted]", "[removed]", "blank"}
                     \/ _word_count(comment.text) < RedditMinWords
               THEN RedditPool(pool, k + 1, acc, limit)
             ELSE RedditPool(pool, k + 1, Collected(acc, comment, "reddit"), limit)

\* Mutant: when the retrieval raises, what was gathered is dropped.
RedditSearch_FailureDropsAll(resp, limit) ==
    LET relevance == RedditPool(resp.relevance, 1, NothingCollected, limit)
        new == IF Len(relevance.comments) >= limit THEN relevance
               ELSE RedditPool(resp.new, 1, relevance, limit)
    IN  [comments |-> IF resp.raises THEN <<>> ELSE Truncated(new.comments, limit),
         raised |-> "none"]

\* RedditScraper.search_comments.  resp holds the pool items the 'relevance'
\* and the 'new' search delivered, and whether an exception ended the
\* retrieval after them; the handler of the method catches it.
RedditSearch(resp, limit) ==
    LET relevance == RedditPool(resp.relevance, 1, NothingCollected, limit)
        new == IF Len(relevance.comments) >= limit THEN relevance
               ELSE RedditPool(resp.new, 1, relevance, limit)
    IN  [comments |-> Truncated(new.comments, limit), raised |-> "none"]

\* The for loop over the comment threads of one video and order.
RECURSIVE YouTubeThreads(_, _, _, _)
YouTubeThreads(items, k, acc, limit) ==
    IF k > Len(items) THEN acc
    ELSE LET ci == items[k]
         IN  IF Len(acc.comments) >= limit THEN acc
             ELSE IF ci.id \in acc.seen_ids THEN YouTubeThreads(items, k + 1, acc, limit)
             ELSE IF _word_count(ci.text) < YouTubeMinWords
               THEN YouTubeThreads(items, k + 1, acc, limit)
             ELSE YouTubeThreads(items, k + 1, Collected(acc, ci, "youtube"), limit)

\* One video: the 'relevance' and the 'time' request, each in its own try;
\* an exception of a request ends that request only.
YouTubeVideo(video, acc, limit) ==
    LET relevance == IF Len(acc.comments) >= limit THEN acc
                     ELSE YouTubeThreads(video.relevance, 1, acc, limit)
    IN  IF Len(relevance.comments) >= limit THEN relevance
        ELSE YouTubeThreads(video.time, 1, relevance, limit)

RECURSIVE YouTubeVideos(_, _, _, _)
YouTubeVideos(videos, k, acc, limit) ==
    IF k > Len(videos) THEN acc
    ELSE IF Len(acc.comments) >= limit THEN acc
    ELSE YouTubeVideos(videos, k + 1, YouTubeVideo(videos[k], acc, limit), limit)

\* YouTubeScraper.search_comments.  resp holds, for each video found, the
\* items each of its two requests delivered before it ended or raised;
\* search_raises: the video search itself raised.
YouTubeSearch(resp, limit) ==
    IF resp.search_raises THEN [comments |-> <<>>, raised |-> "none"]
    ELSE [comments |->
            Truncated(YouTubeVideos(resp.videos, 1, NothingCollected, limit).comments,
                      limit),
          raised |-> "none"]

\* Mutant: tweets are held to the floor of YouTube comments.
RECURSIVE TwitterTweets_YouTubeFloor(_, _, _)
TwitterTweets_YouTubeFloor(data, k, kept) ==
    IF k > Len(data) THEN kept
    ELSE IF _word_count(data[k].text) < YouTubeMinWords
      THEN TwitterTweets_YouTubeFloor(data, k + 1, kept)
    ELSE TwitterTweets_YouTubeFloor(data, k + 1, Append(kept, CommentOf(data[k], "twitter")))

\* The for loop over tweets.data: no seen set and no limit test.
RECURSIVE TwitterTweets(_, _, _)
TwitterTweets(data, k, kept) ==
    IF k > Len(data) THEN kept
    ELSE IF _word_count(data[k].text) < TwitterMinWords
      THEN TwitterTweets(data, k + 1, kept)
    ELSE TwitterTweets(data, k + 1, Append(kept, CommentOf(data[k], "twitter")))

\* TwitterScraper.search_tweets.  resp.data: the tweets delivered before the
\* request ended or an exception ended the loop (<<>>: tweets.data is None).
TwitterSearch(resp, limit) ==
    [comments |-> Truncated(TwitterTweets(resp.data, 1, <<>>), limit), raised |-> "none"]

----------------------------------------------------------------------------
(* The web application's run: calculate_new_ariss (ariss_app.py) *)

MaxItems == 2    \* items one request of a source's API delivers

AppSources == {"reddit", "youtube", "twitter"}

\* The per-source sample caps the run passes.
RedditLimit == 100

YouTubeLimit == 50

TwitterLimit == 50

AppItems == {Item(1, "praise"), Item(1, "thumb")}

Streams == SeqsUpTo(AppItems, MaxItems)

RedditResponses == [relevance : Streams, new : Streams, raises : BOOLEAN]

YouTubeVideoResponses ==
    [relevance : Streams, relevance_raises : BOOLEAN,
     time : Streams, time_raises : BOOLEAN]

YouTubeResponses ==
    [search_raises : BOOLEAN, videos : {<<>>}]
    \cup [search_raises : {FALSE}, videos : {<<v>> : v \in YouTubeVideoResponses}]

TwitterResponses == [data : Streams, raises : BOOLEAN]

\* An exception was raised and caught inside the scraper.
YouTubeRaised(resp) ==
    \/ resp.search_raises
    \/ \E k \in 1..Len(resp.videos) :
          resp.videos[k].relevance_raises \/ resp.videos[k].time_raises

\* scorer._get_current_context(subject): a summary of the subject, or the
\* generic string when the lookup fails.
_get_current_context(lookup) ==
    IF lookup = "summary" THEN "summary" ELSE "fallback"

\* scorer.analyze_comment_with_context(comment, subject, context): the
\* scored comment of analyze_comment, its ensemble score also under the
\* name sentiment_score that the application reads.
analyze_comment_with_context(v, comment, ctx, reply) ==
    LET r == analyze_comment(v, comment, reply)
    IN  [exc |-> r.exc,
         score |-> [f \in DOMAIN r.score \cup {"sentiment_score"} |->
                      IF f = "sentiment_score" THEN r.score.weighted_score
                      ELSE r.score[f]]]

\* The replies of the contextual estimator in an application run.
AppReplies == {FailedReply("timeout"), JsonReply(Num(35), Num(35))}

\* The subject a run of the application saves under; its category is
\* None, written "None".
AppSubject == "subject"

\* The id of the subjects row of a name (0: no such row).
SubjectId(store, name) ==
    IF \E i \in 1..Len(store.subjects) : store.subjects[i].name = name
      THEN CHOOSE i \in 1..Len(store.subjects) : store.subjects[i].name = name
    ELSE 0

\* Mutant: the name column is not UNIQUE: every INSERT adds a row.
InsertOrIgnoreSubject_NotUnique(store, name, category) ==
    [store EXCEPT !.subjects = Append(@, [name |-> name, category |-> category])]

\* INSERT OR IGNORE INTO subjects (name, category) VALUES (?, ?)
InsertOrIgnoreSubject(store, name, category) ==
    IF SubjectId(store, name) # 0 THEN store
    ELSE [store EXCEPT !.subjects = Append(@, [name |-> name, category |-> category])]

\* db.add_subject(name, category) of one connection, nothing in between.
add_subject(store, name, category) ==
    LET after == InsertOrIgnoreSubject(store, name, category)
    IN  [store |-> after, id |-> SubjectId(after, name)]

\* Mutant: the subject's latest row is overwritten by the new aggregate.
save_ariss_score_Upsert(store, subject_name, ariss_data, category, locked) ==
    IF locked THEN [exc |-> "OperationalError", store |-> store]
    ELSE LET s == add_subject(store, subject_name, category)
             row == [subject_id |-> s.id,
                     score |-> ariss_data.ariss_score,
                     confidence |-> ariss_data.confidence,
                     sample_size |-> ariss_data.sample_size]
             own == {i \in 1..Len(s.store.ariss_scores) :
                        s.store.ariss_scores[i].subject_id = s.id}
         IN  IF IsNaN(ariss_data.ariss_score) \/ IsNaN(ariss_data.confidence)
               THEN [exc |-> "IntegrityError", store |-> s.store]
             ELSE IF own = {}
               THEN [exc |-> "none",
                     store |-> [s.store EXCEPT !.ariss_scores = Append(@, row)]]
             ELSE [exc |-> "none",
                   store |-> [s.store EXCEPT !.ariss_scores[
                                 CHOOSE i \in own : \A j \in own : j <= i] = row]]

\* db.save_ariss_score(subject_name, ariss_data, category): the INSERT
\* appends a row; sqlite binds a NaN as NULL, which the NOT NULL columns
\* refuse; locked: the database cannot be written.
save_ariss_score(store, subject_name, ariss_data, category, locked) ==
    IF locked THEN [exc |-> "OperationalError", store |-> store]
    ELSE LET s == add_subject(store, subject_name, category)
         IN  IF IsNaN(ariss_data.ariss_score) \/ IsNaN(ariss_data.confidence)
               THEN [exc |-> "IntegrityError", store |-> s.store]
             ELSE [exc |-> "none",
                   store |-> [s.store EXCEPT !.ariss_scores =
                                Append(@, [subject_id |-> s.id,
                                           score |-> ariss_data.ariss_score,
                                           confidence |-> ariss_data.confidence,
                                           sample_size |-> ariss_data.sample_size])]]

\* class SentimentScoreAdapter: what the application hands to the store
\* for a scored comment.
SentimentScoreAdapter(result) ==
    [comment_id |-> result.comment_id, text |-> result.text,
     source |-> result.source, weighted_score |-> result.sentiment_score,
     timestamp |-> "datetime"]

\* The INSERT OR REPLACE of one score raises: its timestamp is no datetime
\* (isoformat), or its text is None (NOT NULL).
RowRaises(score) == score.timestamp = "None" \/ score.text = "None"

\* Mutant: a comment has one row per subject.
InsertOrReplaceScore_PerSubject(rows, subject_id, score) ==
    {r \in rows : r.comment_id # score.comment_id \/ r.subject_id # subject_id}
    \cup {[subject_id |-> subject_id, comment_id |-> score.comment_id,
           text |-> score.text, source |-> score.source,
           weighted_score |-> score.weighted_score]}

\* INSERT OR REPLACE INTO sentiment_scores: the row of the same comment_id,
\* if any, is deleted and the new row inserted.
InsertOrReplaceScore(rows, subject_id, score) ==
    {r \in rows : r.comment_id # score.comment_id}
    \cup {[subject_id |-> subject_id, comment_id |-> score.comment_id,
           text |-> score.text, source |-> score.source,
           weighted_score |-> score.weighted_score]}

\* Mutant: the exception of one row's INSERT ends the loop.
RECURSIVE SaveRows_FailureEndsLoop(_, _, _, _, _)
SaveRows_FailureEndsLoop(rows, subject_id, scores, k, bad_row) ==
    IF k > Len(scores) THEN rows
    ELSE IF k = bad_row \/ RowRaises(scores[k]) THEN rows
    ELSE SaveRows_FailureEndsLoop(InsertOrReplaceScore(rows, subject_id, scores[k]),
                                  subject_id, scores, k + 1, bad_row)

\* The loop of save_sentiment_scores from score k on, each INSERT in its
\* own try; bad_row: the index of a row whose INSERT sqlite refuses (0: none).
RECURSIVE SaveRows(_, _, _, _, _)
SaveRows(rows, subject_id, scores, k, bad_row) ==
    IF k > Len(scores) THEN rows
    ELSE IF k = bad_row \/ RowRaises(scores[k])
      THEN SaveRows(rows, subject_id, scores, k + 1, bad_row)
    ELSE SaveRows(InsertOrReplaceScore(rows, subject_id, scores[k]),
                  subject_id, scores, k + 1, bad_row)

\* db.save_sentiment_scores(subject_name, sentiment_scores, category).
save_sentiment_scores(store, subject_name, scores, category, locked, bad_row) ==
    IF locked THEN [exc |-> "OperationalError", store |-> store]
    ELSE LET s == add_subject(store, subject_name, category)
         IN  [exc |-> "none",
              store |-> [s.store EXCEPT !.sentiment_scores =
                           SaveRows(@, s.id, scores, 1, bad_row)]]

InitApp ==
    /\ vader = TRUE
    /\ comments = <<>>
    /\ replies = <<>>
    /\ sentiment_scores = <<>>
    /\ raised = "none"
    /\ pc = "app_start"
    /\ calc = NoCalc
    /\ ariss_result = NoResult
    /\ prev_call = NoCall
    /\ fn_arg = NoValue
    /\ fn_ret = NoValue
    /\ scorer \in BOOLEAN
    /\ env \in SUBSET AppSources
    /\ context = ""
    /\ api = <<>>
    /\ warnings = <<>>
    /\ returned = "pending"
    /\ db = EmptyStore
    /\ threads = <<>>

scorevars == <<vader, replies, sentiment_scores, calc, ariss_result, prev_call>>

\* What the run records of one adapter: how the call went and the list
\* search returned.
Called(source, status, list) ==
    [source |-> source, status |-> status, returned |-> list]

\* One adapter block of the run: skipped without credentials; the
\* constructor and the search in one try, st.warning on an exception.
AdapterBlock(source, ctor_ok, r, resp_raised, after) ==
    /\ pc' = after
    /\ IF source \notin env
         THEN UNCHANGED <<comments, api, warnings>>
       ELSE IF ~ctor_ok
         THEN /\ api' = Append(api, Called(source, "import_error", <<>>))
              /\ warnings' = Append(warnings, source)
              /\ UNCHANGED comments
       ELSE IF r.raised # "none"
         THEN /\ api' = Append(api, Called(source, "raised", <<>>))
              /\ warnings' = Append(warnings, source)
              /\ UNCHANGED comments
       ELSE /\ api' = Append(api, Called(source,
                                         IF resp_raised THEN "caught" ELSE "ok",
                                         r.comments))
            /\ comments' = comments \o r.comments
            /\ UNCHANGED warnings
    /\ UNCHANGED <<scorer, env, context, returned, db, threads, raised>>
    /\ UNCHANGED scorevars
    /\ UNCHANGED fnvars

\* if not scorer: return None; db = get_database().
AppEnter(store_ok) ==
    /\ pc = "app_start"
    /\ IF ~scorer
         THEN /\ returned' = "None"
              /\ pc' = "app_done"
              /\ UNCHANGED raised
       ELSE IF ~store_ok
         THEN /\ raised' = "OperationalError"
              /\ pc' = "crashed"
              /\ UNCHANGED returned
       ELSE /\ pc' = "context"
            /\ UNCHANGED <<raised, returned>>
    /\ UNCHANGED <<scorer, env, context, api, warnings, db, threads, comments>>
    /\ UNCHANGED scorevars
    /\ UNCHANGED fnvars

\* context = scorer._get_current_context(subject)
FetchContext(lookup) ==
    /\ pc = "context"
    /\ context' = _get_current_context(lookup)
    /\ pc' = "reddit"
    /\ UNCHANGED <<scorer, env, api, warnings, returned, db, threads, comments, raised>>
    /\ UNCHANGED scorevars
    /\ UNCHANGED fnvars

RedditStep(ctor_ok, resp) ==
    /\ pc = "reddit"
    /\ AdapterBlock("reddit", ctor_ok, RedditSearch(resp, RedditLimit),
                    resp.raises, "youtube")

YouTubeStep(ctor_ok, resp) ==
    /\ pc = "youtube"
    /\ AdapterBlock("youtube", ctor_ok, YouTubeSearch(resp, YouTubeLimit),
                    YouTubeRaised(resp), "twitter")

TwitterStep(ctor_ok, resp) ==
    /\ pc = "twitter"
    /\ AdapterBlock("twitter", ctor_ok, TwitterSearch(resp, TwitterLimit),
                    resp.raises, "found")

\* if not all_comments: st.error(...); return None
CheckFound ==
    /\ pc = "found"
    /\ IF comments = <<>>
         THEN /\ returned' = "None"
              /\ pc' = "app_done"
         ELSE /\ pc' = "app_analyze"
              /\ UNCHANGED returned
    /\ UNCHANGED <<scorer, env, context, api, warnings, db, threads, comments, raised>>
    /\ UNCHANGED scorevars
    /\ UNCHANGED fnvars

\* One pass of the loop: result = scorer.analyze_comment_with_context(...);
\* sentiment_results.append(result).
AnalyzeWithContext(reply) ==
    /\ pc = "app_analyze"
    /\ Len(sentiment_scores) < Len(comments)
    /\ LET r == analyze_comment_with_context(
                    vader, comments[Len(sentiment_scores) + 1], context, reply)
       IN  /\ replies' = Append(replies, reply)
           /\ IF r.exc # "none"
                THEN /\ raised' = r.exc
                     /\ pc' = "crashed"
                     /\ UNCHANGED sentiment_scores
                ELSE /\ sentiment_scores' = Append(sentiment_scores, r.score)
                     /\ UNCHANGED <<raised, pc>>
    /\ UNCHANGED <<vader, comments, calc, ariss_result, prev_call>>
    /\ UNCHANGED fnvars
    /\ UNCHANGED appvars

\* Mutant: the aggregate is computed as soon as one comment is scored.
AppCalculate_NoBarrier ==
    /\ pc = "app_analyze"
    /\ Len(sentiment_scores) >= 1
    /\ Call(sentiment_scores, "save_score")
    /\ UNCHANGED <<vader, comments, replies, sentiment_scores, prev_call>>
    /\ UNCHANGED fnvars
    /\ UNCHANGED appvars

\* ariss_result = scorer.calculate_ariss(sentiment_results)
AppCalculate ==
    /\ pc = "app_analyze"
    /\ Len(sentiment_scores) = Len(comments)
    /\ Call(sentiment_scores, "save_score")
    /\ UNCHANGED <<vader, comments, replies, sentiment_scores, prev_call>>
    /\ UNCHANGED fnvars
    /\ UNCHANGED appvars

\* db.save_ariss_score(subject, ariss_result, category)
SaveAriss(locked) ==
    /\ pc = "save_score"
    /\ LET r == save_ariss_score(db, AppSubject, ariss_result, "None", locked)
       IN  /\ db' = r.store
           /\ raised' = r.exc
           /\ pc' = IF r.exc = "none" THEN "save_rows" ELSE "crashed"
    /\ UNCHANGED <<scorer, env, context, api, warnings, returned, threads, comments>>
    /\ UNCHANGED scorevars
    /\ UNCHANGED fnvars

\* db.save_sentiment_scores(subject, adapted_results, category);
\* return ariss_result, adapted_results, category
SaveSentiments(locked, bad_row) ==
    /\ pc = "save_rows"
    /\ LET adapted_results == [i \in 1..Len(sentiment_scores) |->
                                  SentimentScoreAdapter(sentiment_scores[i])]
           r == save_sentiment_scores(db, AppSubject, adapted_results, "None",
                                      locked, bad_row)
       IN  /\ db' = r.store
           /\ raised' = r.exc
           /\ pc' = IF r.exc = "none" THEN "app_done" ELSE "crashed"
           /\ returned' = IF r.exc = "none" THEN "result" ELSE returned
    /\ UNCHANGED <<scorer, env, context, api, warnings, threads, comments>>
    /\ UNCHANGED scorevars
    /\ UNCHANGED fnvars

NextApp ==
    \/ \E store_ok \in BOOLEAN : AppEnter(store_ok)
    \/ \E lookup \in {"summary", "lookup_failed"} : FetchContext(lookup)
    \/ \E ctor_ok \in BOOLEAN, resp \in RedditResponses : RedditStep(ctor_ok, resp)
    \/ \E ctor_ok \in BOOLEAN, resp \in YouTubeResponses : YouTubeStep(ctor_ok, resp)
    \/ \E ctor_ok \in BOOLEAN, resp \in TwitterResponses : TwitterStep(ctor_ok, resp)
    \/ CheckFound
    \/ \E reply \in AppReplies : AnalyzeWithContext(reply)
    \/ AppCalculate
    \/ \E locked \in BOOLEAN : SaveAriss(locked)
    \/ \E locked \in BOOLEAN, bad_row \in 0..1 : SaveSentiments(locked, bad_row)

SpecApp == InitApp /\ [][NextApp]_vars

----------------------------------------------------------------------------
(* Claims about the application's run *)

\* C15: the comment_id of a scored comment is computed from the comment's
\* (source, platform_id) pair only, and no two comments gathered or scored
\* in one run share a comment_id, whatever the sources' responses repeat.
C15_DistinctCommentIds ==
    /\ \A i \in 1..Len(sentiment_scores) :
          sentiment_scores[i].comment_id
             = <<comments[i].source, comments[i].platform_id>>
    /\ \A i, j \in 1..Len(comments) :
          i < j => CommentId(comments[i]) # CommentId(comments[j])
    /\ \A i, j \in 1..Len(sentiment_scores) :
          i < j => sentiment_scores[i].comment_id # sentiment_scores[j].comment_id

----------------------------------------------------------------------------
(* analyze_comment on its own: the same Comment scored repeatedly, the
   external estimator replying anew each time *)

MaxScorings == 2    \* times the Comment is scored

InitScore ==
    /\ vader \in BOOLEAN
    /\ \E comment \in CommentKinds : comments = <<comment>>
    /\ replies = <<>>
    /\ sentiment_scores = <<>>
    /\ raised = "none"
    /\ pc = "score"
    /\ calc = NoCalc
    /\ ariss_result = NoResult
    /\ prev_call = NoCall
    /\ fn_arg = NoValue
    /\ fn_ret = NoValue
    /\ NoApp

\* score = scorer.analyze_comment(comment, subject), on the same Comment.
ScoreComment(reply) ==
    /\ pc = "score"
    /\ Len(replies) < MaxScorings
    /\ LET r == analyze_comment(vader, comments[1], reply)
       IN  /\ replies' = Append(replies, reply)
           /\ IF r.exc # "none"
                THEN /\ raised' = r.exc
                     /\ pc' = "crashed"
                     /\ UNCHANGED sentiment_scores
                ELSE /\ sentiment_scores' = Append(sentiment_scores, r.score)
                     /\ UNCHANGED <<raised, pc>>
    /\ UNCHANGED <<vader, comments, calc, ariss_result, prev_call>>
    /\ UNCHANGED fnvars
    /\ UNCHANGED appvars

NextScore == \E reply \in Replies : ScoreComment(reply)

SpecScore == InitScore /\ [][NextScore]_vars

\* The scorings of the Comment made so far.
Scorings == 1..Len(sentiment_scores)

\* C17, as stated: scoring the same Comment twice gives the same bias_score,
\* source_credibility, length_weight and word_count, whatever the external
\* estimator does.
C17_FourQuantitiesFixed ==
    \A i, j \in Scorings :
        /\ sentiment_scores[i].bias_score = sentiment_scores[j].bias_score
        /\ sentiment_scores[i].source_credibility = sentiment_scores[j].source_credibility
        /\ sentiment_scores[i].length_weight = sentiment_scores[j].length_weight
        /\ sentiment_scores[i].word_count = sentiment_scores[j].word_count

\* C17, amended: source_credibility, length_weight and word_count are the
\* same in every scoring of the same Comment, whatever the external
\* estimator replies; bias_score is the estimator's, and is the neutral 50
\* whenever the estimator's call failed.
C17_ThreeQuantitiesFixed ==
    /\ \A i, j \in Scorings :
          /\ sentiment_scores[i].source_credibility = sentiment_scores[j].source_credibility
          /\ sentiment_scores[i].length_weight = sentiment_scores[j].length_weight
          /\ sentiment_scores[i].word_count = sentiment_scores[j].word_count
    /\ \A i \in Scorings :
          replies[i].kind \in FailureKinds
             => sentiment_scores[i].bias_score = FallbackBias

\* The Comment was scored twice, the estimator failing once and rating the
\* bias 100 the other time.
C17_Witness ==
    /\ Len(sentiment_scores) = 2
    /\ replies[1].kind = "timeout"
    /\ replies[2] = JsonReply(Num(35), Num(250))
    /\ sentiment_scores[1].bias_score = 50
    /\ sentiment_scores[2].bias_score = 100

\* The lists the adapters called so far returned, one after the other.
Gathered ==
    LET list(k) == IF k <= Len(api) THEN api[k].returned ELSE <<>>
    IN  list(1) \o list(2) \o list(3)

\* The sources whose adapter block the run has passed when it is at a position.
SourcesPassed ==
    CASE pc \in {"app_start", "context", "reddit"} -> {}
      [] pc = "youtube" -> {"reddit"}
      [] pc = "twitter" -> {"reddit", "youtube"}
      [] OTHER -> AppSources

\* The retrieval of a response without its exceptions.
Unfailed(resp) ==
    [search_raises |-> FALSE,
     videos |-> [k \in 1..Len(resp.videos) |->
                   [resp.videos[k] EXCEPT !.relevance_raises = FALSE,
                                          !.time_raises = FALSE]]]

\* C18: a failure of one source adapter does not abort the run: no
\* exception leaves an adapter block, every configured adapter is called
\* whatever the earlier ones did, the run's comments are exactly what the
\* adapters gathered (a failing adapter returning what it had gathered
\* before the failure), and a run that has comments scores and aggregates
\* all of them.
C18_AdapterFailureContained ==
    /\ pc \in {"youtube", "twitter", "found"} => raised = "none"
    /\ (scorer /\ pc # "crashed") =>
          {api[k].source : k \in 1..Len(api)} = env \cap SourcesPassed
    /\ comments = Gathered
    /\ pc = "reddit" =>
          \A resp \in RedditResponses :
             LET r == RedditSearch(resp, RedditLimit)
             IN  /\ r.raised = "none"
                 /\ r.comments
                      = RedditSearch([resp EXCEPT !.raises = FALSE], RedditLimit).comments
    /\ pc = "youtube" =>
          \A resp \in YouTubeResponses :
             LET r == YouTubeSearch(resp, YouTubeLimit)
             IN  /\ r.raised = "none"
                 /\ ~resp.search_raises =>
                       r.comments = YouTubeSearch(Unfailed(resp), YouTubeLimit).comments
    /\ pc \in {"save_score", "save_rows"} =>
          /\ Len(sentiment_scores) = Len(comments)
          /\ ariss_result.sample_size = Len(comments)
    /\ (pc = "app_done" /\ comments # <<>>) =>
          /\ returned = "result"
          /\ ariss_result.sample_size = Len(comments)
          /\ \A i \in 1..Len(comments) :
                sentiment_scores[i].comment_id = CommentId(comments[i])

\* A run ended with a result although the Reddit adapter could not be
\* built and an exception ended the YouTube retrieval after one comment;
\* that comment and the Twitter ones were scored and aggregated.
C18_Witness ==
    /\ pc = "app_done"
    /\ returned = "result"
    /\ Len(api) = 3
    /\ api[1].status = "import_error"
    /\ api[2].status = "caught"
    /\ Len(api[2].returned) = 1
    /\ api[3].status = "ok"
    /\ Len(comments) = 3
    /\ ariss_result.sample_size = 3

\* C19: a run in which no adapter returned a comment ends by returning the
\* aggregator's sentinel result (index 50, confidence 0, sample_size 0, the
\* no-data marker), not nothing.
C19_NoDataSentinel ==
    (pc = "app_done" /\ scorer /\ comments = <<>>) =>
        /\ returned = "result"
        /\ ariss_result = SentinelResult

\* C20: a run never ends with an uncaught exception, whatever the context
\* supplier, the adapters, the estimators and the store do; a failing
\* context lookup leaves the generic fallback string as the context.
C20_NoUncaughtException ==
    /\ raised = "none"
    /\ pc # "crashed"
    /\ pc \notin {"app_start", "context"} /\ scorer => context \in {"summary", "fallback"}

----------------------------------------------------------------------------
(* The scrapers on their own: one search of one source, on any response *)

MaxLimit == 2    \* the largest limit a search is called with

\* Items of a Reddit pool: deleted, blank and short bodies, a repeated id.
RedditItems ==
    {Item(1, "[deleted]"), Item(1, "two words"), Item(1, "three words"),
     Item(2, "three words"), Item(2, "blank")}

YouTubeItems ==
    {Item(1, "three words"), Item(1, "four words"), Item(2, "four words")}

TwitterItems ==
    {Item(1, "[removed]"), Item(1, "four words"), Item(1, "five words"),
     Item(2, "five words")}

\* The second ordering delivers at most one item.
RedditScrapes ==
    [relevance : SeqsUpTo(RedditItems, MaxItems), new : SeqsUpTo(RedditItems, 1), raises : BOOLEAN]

YouTubeScrapes ==
    [search_raises : BOOLEAN, videos : {<<>>}]
    \cup [search_raises : {FALSE},
          videos : {<<v>> : v \in [relevance : SeqsUpTo(YouTubeItems, MaxItems), relevance_raises : BOOLEAN,
                                   time : SeqsUpTo(YouTubeItems, 1),
                                   time_raises : BOOLEAN]}]

TwitterScrapes == [data : SeqsUpTo(TwitterItems, MaxItems), raises : BOOLEAN]

\* The sort methods RedditScraper.search_comments passes to subreddit.search:
\* for sort_method in ['relevance', 'new']: if len(comments) >= limit: break.
RedditQueries(resp, limit) ==
    LET relevance == RedditPool(resp.relevance, 1, NothingCollected, limit)
    IN  IF limit <= 0 THEN <<>>
        ELSE IF Len(relevance.comments) >= limit THEN <<"relevance">>
        ELSE <<"relevance", "new">>

\* The orders YouTubeScraper.search_comments requests for the videos from
\* video k on: for order in ['relevance', 'time']: if len(comments) >= limit:
\* break.
RECURSIVE YouTubeQueries(_, _, _, _)
YouTubeQueries(videos, k, acc, limit) ==
    IF k > Len(videos) THEN <<>>
    ELSE IF Len(acc.comments) >= limit THEN <<>>
    ELSE LET relevance == YouTubeThreads(videos[k].relevance, 1, acc, limit)
             here == IF Len(relevance.comments) >= limit THEN <<"relevance">>
                     ELSE <<"relevance", "time">>
         IN  here \o YouTubeQueries(videos, k + 1,
                                    YouTubeVideo(videos[k], acc, limit), limit)

\* The calls made: a source, the limit passed and what the API delivers.
ScrapeCalls ==
    {[source |-> "reddit", limit |-> limit, resp |-> resp, failed |-> resp.raises] :
        resp \in RedditScrapes, limit \in 1..MaxLimit}
    \cup {[source |-> "youtube", limit |-> limit, resp |-> resp,
           failed |-> YouTubeRaised(resp)] :
              resp \in YouTubeScrapes, limit \in 1..MaxLimit}
    \cup {[source |-> "twitter", limit |-> limit, resp |-> resp, failed |-> resp.raises] :
              resp \in TwitterScrapes, limit \in 1..MaxLimit}

InitScrape ==
    /\ NoRun
    /\ NoApp
    /\ pc = "scrape"
    /\ prev_call = NoCall
    /\ fn_arg \in ScrapeCalls
    /\ fn_ret = NoValue

\* RedditScraper(...).search_comments(query, limit)
RedditCall ==
    /\ pc = "scrape"
    /\ fn_arg.source = "reddit"
    /\ fn_ret' = [comments |-> RedditSearch(fn_arg.resp, fn_arg.limit).comments,
                  queries |-> RedditQueries(fn_arg.resp, fn_arg.limit)]
    /\ pc' = "scraped"
    /\ UNCHANGED <<fn_arg, prev_call>>
    /\ UNCHANGED runvars
    /\ UNCHANGED appvars

\* YouTubeScraper(...).search_comments(query, limit)
YouTubeCall ==
    /\ pc = "scrape"
    /\ fn_arg.source = "youtube"
    /\ fn_ret' = [comments |-> YouTubeSearch(fn_arg.resp, fn_arg.limit).comments,
                  queries |-> IF fn_arg.resp.search_raises THEN <<>>
                              ELSE YouTubeQueries(fn_arg.resp.videos, 1,
                                                  NothingCollected, fn_arg.limit)]
    /\ pc' = "scraped"
    /\ UNCHANGED <<fn_arg, prev_call>>
    /\ UNCHANGED runvars
    /\ UNCHANGED appvars

\* TwitterScraper(...).search_tweets(query, limit)
TwitterCall ==
    /\ pc = "scrape"
    /\ fn_arg.source = "twitter"
    /\ fn_ret' = [comments |-> TwitterSearch(fn_arg.resp, fn_arg.limit).comments,
                  queries |-> <<"recent">>]
    /\ pc' = "scraped"
    /\ UNCHANGED <<fn_arg, prev_call>>
    /\ UNCHANGED runvars
    /\ UNCHANGED appvars

NextScrape ==
    \/ RedditCall
    \/ YouTubeCall
    \/ TwitterCall

SpecScrape == InitScrape /\ [][NextScrape]_vars

----------------------------------------------------------------------------
(* Claims about the scrapers *)

\* The per-source word floors as stated.
StatedFloor(source) ==
    CASE source = "reddit" -> 3
      [] source = "youtube" -> 4
      [] source = "twitter" -> 5

\* C21: no comment a scraper returns has empty text, is a deleted/removed
\* sentinel, or has fewer words than its source's floor (3 for Reddit, 4 for
\* YouTube, 5 for Twitter), whatever the API delivered.
C21_QualityFloors ==
    pc = "scraped" =>
        \A i \in 1..Len(fn_ret.comments) :
            LET c == fn_ret.comments[i]
            IN  /\ c.source = fn_arg.source
                /\ c.text \notin {"blank", "[deleted]", "[removed]"}
                /\ _word_count(c.text) >= StatedFloor(c.source)

\* A Twitter response of a four-word and a five-word tweet: only the
\* five-word tweet was returned.
C21_Witness ==
    /\ pc = "scraped"
    /\ fn_arg.source = "twitter"
    /\ fn_arg.limit = 2
    /\ fn_arg.resp.data = <<Item(1, "four words"), Item(2, "five words")>>
    /\ fn_ret.comments = <<CommentOf(Item(2, "five words"), "twitter")>>

\* What the search of the call made returns when called with a limit.
SearchWith(limit) ==
    CASE fn_arg.source = "reddit" -> RedditSearch(fn_arg.resp, limit).comments
      [] fn_arg.source = "youtube" -> YouTubeSearch(fn_arg.resp, limit).comments
      [] fn_arg.source = "twitter" -> TwitterSearch(fn_arg.resp, limit).comments

\* C22: a scraper returns at most limit comments whatever the API
\* delivered, and nothing past the cap: what it returns is the first limit
\* comments of what it returns when no cap is reached; the caps the run
\* passes (100, 50, 50) add up to 200.
C22_Capped ==
    /\ RedditLimit + YouTubeLimit + TwitterLimit = 200
    /\ pc = "scraped" =>
          LET uncapped == SearchWith(2 * MaxItems + 1)
          IN  /\ Len(fn_ret.comments) <= fn_arg.limit
              /\ fn_ret.comments
                   = SubSeq(uncapped, 1, Min(fn_arg.limit, Len(uncapped)))

\* Two qualifying tweets delivered to a search of limit 1: one returned.
C22_Witness ==
    /\ pc = "scraped"
    /\ fn_arg.source = "twitter"
    /\ fn_arg.limit = 1
    /\ fn_arg.resp.data = <<Item(1, "five words"), Item(2, "five words")>>
    /\ Len(fn_ret.comments) = 1

\* C23: every search of Reddit that does not fail queries 'new' as well as
\* 'relevance', and every search of YouTube that does not fail requests the
\* 'time' order as well as 'relevance' for a video it found, before
\* returning.
C23_BothOrderings ==
    (pc = "scraped" /\ ~fn_arg.failed) =>
        /\ fn_arg.source = "reddit" => fn_ret.queries = <<"relevance", "new">>
        /\ (fn_arg.source = "youtube" /\ fn_arg.resp.videos # <<>>)
              => fn_ret.queries = <<"relevance", "time">>

----------------------------------------------------------------------------
(* Claims about the reported statistics *)

\* The keys a result may report the median of the scores under.
MedianKeys == {"median", "median_score", "median_sentiment"}

\* C24: for every non-empty input the result of calculate_ariss reports
\* the mean, the median, the standard deviation, the minimum and the
\* maximum of the ensemble scores, the per-source counts, and the mean
\* bias and the mean credibility.
C24_ReportsStatistics ==
    (AggCalledNonEmpty /\ raised = "none") =>
        /\ {"ariss_score", "std_dev", "min_score", "max_score", "source_breakdown",
            "mean_bias", "mean_credibility"} \subseteq DOMAIN ariss_result
        /\ MedianKeys \cap DOMAIN ariss_result # {}

----------------------------------------------------------------------------
(* The store on its own: a sequence of calls of one connection *)

MaxCalls == 3    \* calls of the store's methods in a sequence

SubjectNames == {"a", "b"}

\* Dicts of calculate_ariss handed to save_ariss_score.
AggregateKinds ==
    {[ariss_score |-> 5000, confidence |-> 100, sample_size |-> 1],
     [ariss_score |-> 7150, confidence |-> 5200, sample_size |-> 2],
     [ariss_score |-> NaN, confidence |-> 100, sample_size |-> 1]}

StoredScore(id, score, timestamp) ==
    [comment_id |-> id, text |-> "praise", source |-> "reddit",
     weighted_score |-> score, timestamp |-> timestamp]

\* Lists handed to save_sentiment_scores: a comment saved again with another
\* score, and a comment whose timestamp is no datetime.
ScoreLists ==
    {<<StoredScore("x", 10, "datetime")>>,
     <<StoredScore("x", 90, "datetime"), StoredScore("y", 10, "datetime")>>,
     <<StoredScore("y", 50, "None"), StoredScore("x", 10, "datetime")>>,
     <<StoredScore("x", 10, "datetime"), StoredScore("y", 50, "None")>>}

InitDb ==
    /\ NoRun
    /\ pc = "store"
    /\ prev_call = NoCall
    /\ fn_arg = [calls |-> 0, saves |-> [name \in SubjectNames |-> 0]]
    /\ fn_ret = NoValue
    /\ scorer = TRUE
    /\ env = {}
    /\ context = ""
    /\ api = <<>>
    /\ warnings = <<>>
    /\ returned = "pending"
    /\ db = EmptyStore
    /\ threads = <<>>

\* Bookkeeping of a call: the store before it and the call before it are
\* remembered, the calls and the aggregates saved per subject are counted.
StoreCalled(call, exc, value) ==
    /\ prev_call' = [db |-> db,
                     call |-> IF fn_arg.calls = 0 THEN NoCall ELSE fn_ret.call]
    /\ fn_ret' = [call |-> call, exc |-> exc, value |-> value]
    /\ fn_arg' = [calls |-> fn_arg.calls + 1,
                  saves |-> IF call.method = "save_ariss_score" /\ exc = "none"
                              THEN [fn_arg.saves EXCEPT ![call.name] = @ + 1]
                            ELSE fn_arg.saves]
    /\ UNCHANGED <<pc, scorer, env, context, api, warnings, returned, threads>>
    /\ UNCHANGED runvars

\* db.add_subject(name, category)
AddSubject(name, category) ==
    /\ pc = "store"
    /\ fn_arg.calls < MaxCalls
    /\ LET r == add_subject(db, name, category)
       IN  /\ db' = r.store
           /\ StoreCalled([method |-> "add_subject", name |-> name,
                           category |-> category],
                          "none", r.id)

\* db.save_ariss_score(subject_name, ariss_data, category)
SaveArissScore(name, ariss_data, locked) ==
    /\ pc = "store"
    /\ fn_arg.calls < MaxCalls
    /\ LET r == save_ariss_score(db, name, ariss_data, "None", locked)
       IN  /\ db' = r.store
           /\ StoreCalled([method |-> "save_ariss_score", name |-> name,
                           ariss_data |-> ariss_data, locked |-> locked],
                          r.exc, Len(r.store.ariss_scores))

\* db.save_sentiment_scores(subject_name, sentiment_scores, category)
SaveSentimentScores(name, scores) ==
    /\ pc = "store"
    /\ fn_arg.calls < MaxCalls
    /\ LET r == save_sentiment_scores(db, name, scores, "None", FALSE, 0)
       IN  /\ db' = r.store
           /\ StoreCalled([method |-> "save_sentiment_scores", name |-> name,
                           scores |-> scores],
                          r.exc, "None")

NextDb ==
    \/ \E name \in SubjectNames, category \in {"c", "d"} : AddSubject(name, category)
    \/ \E name \in SubjectNames, ariss_data \in AggregateKinds, locked \in BOOLEAN :
          SaveArissScore(name, ariss_data, locked)
    \/ \E name \in SubjectNames, scores \in ScoreLists : SaveSentimentScores(name, scores)

SpecDb == InitDb /\ [][NextDb]_vars

----------------------------------------------------------------------------
(* Claims about the store *)

\* The ariss_scores rows of a subject, by name.
ArissRowsOf(store, name) ==
    {i \in 1..Len(store.ariss_scores) :
        /\ SubjectId(store, name) # 0
        /\ store.ariss_scores[i].subject_id = SubjectId(store, name)}

StoreWasCalled == pc = "store" /\ fn_arg.calls > 0

\* C25: the aggregates are append-only: a save_ariss_score call that
\* returns adds exactly one ariss_scores row, for its subject and with its
\* values; no call changes or removes an earlier row; so each subject has as
\* many rows as aggregates were saved for it.
C25_AppendOnly ==
    /\ pc = "store" =>
          \A name \in SubjectNames :
             Cardinality(ArissRowsOf(db, name)) = fn_arg.saves[name]
    /\ StoreWasCalled =>
          LET before == prev_call.db.ariss_scores
              after == db.ariss_scores
              call == fn_ret.call
          IN  /\ Len(after) >= Len(before)
              /\ \A i \in 1..Len(before) : after[i] = before[i]
              /\ IF call.method = "save_ariss_score" /\ fn_ret.exc = "none"
                   THEN /\ Len(after) = Len(before) + 1
                        /\ after[Len(after)].subject_id = SubjectId(db, call.name)
                        /\ after[Len(after)].score = call.ariss_data.ariss_score
                        /\ after[Len(after)].sample_size = call.ariss_data.sample_size
                 ELSE Len(after) = Len(before)

\* Two aggregates were saved for subject "a", the second with other
\* values: both rows are there.
C25_Witness ==
    /\ StoreWasCalled
    /\ fn_arg.saves["a"] = 2
    /\ Len(db.ariss_scores) = 2
    /\ db.ariss_scores[1].score = 5000
    /\ db.ariss_scores[2].score = 7150
    /\ fn_ret.call.method = "save_ariss_score"

\* The last score of a list with a comment_id whose INSERT does not raise
\* (0: there is none).
LastSaved(scores, id) ==
    LET ok == {k \in 1..Len(scores) : scores[k].comment_id = id /\ ~RowRaises(scores[k])}
    IN  IF ok = {} THEN 0 ELSE CHOOSE k \in ok : \A j \in ok : j <= k

LastWasSentimentSave ==
    /\ StoreWasCalled
    /\ fn_ret.call.method = "save_sentiment_scores"

\* C26: a score of the list that cannot be persisted is skipped without
\* raising: save_sentiment_scores returns, every other score of the list has
\* its row afterwards, and the aggregate rows are as they were.
C26_RowFailureSkipped ==
    LastWasSentimentSave =>
        LET scores == fn_ret.call.scores
        IN  /\ fn_ret.exc = "none"
            /\ raised = "none"
            /\ \A k \in 1..Len(scores) :
                  ~RowRaises(scores[k]) =>
                      \E r \in db.sentiment_scores :
                          /\ r.comment_id = scores[k].comment_id
                          /\ r.subject_id = SubjectId(db, fn_ret.call.name)
            /\ db.ariss_scores = prev_call.db.ariss_scores

\* An aggregate was saved, then a list whose first score cannot be
\* persisted: the second score has its row and the aggregate is there.
C26_Witness ==
    /\ LastWasSentimentSave
    /\ fn_ret.call.scores = <<StoredScore("y", 50, "None"), StoredScore("x", 10, "datetime")>>
    /\ prev_call.db.sentiment_scores = {}
    /\ Cardinality(db.sentiment_scores) = 1
    /\ Len(db.ariss_scores) = 1

\* get_sentiment_details(subject_name): the rows of a subject.
Details(store, name) ==
    {r \in store.sentiment_scores :
        SubjectId(store, name) # 0 /\ r.subject_id = SubjectId(store, name)}

\* C29: sentiment_scores holds at most one row per comment_id across all
\* subjects; after a save the row of each comment saved carries the values
\* and the subject of that save and is in no other subject's details; and
\* saving the same list again for the same subject changes nothing.
C29_UpsertByCommentId ==
    /\ pc = "store" =>
          \A r1, r2 \in db.sentiment_scores :
              r1.comment_id = r2.comment_id => r1 = r2
    /\ LastWasSentimentSave =>
          LET scores == fn_ret.call.scores
              ids == {scores[k].comment_id : k \in 1..Len(scores)}
          IN  /\ \A id \in ids :
                    LastSaved(scores, id) # 0 =>
                       /\ \E r \in Details(db, fn_ret.call.name) :
                             /\ r.comment_id = id
                             /\ r.weighted_score = scores[LastSaved(scores, id)].weighted_score
                       /\ \A name \in SubjectNames \ {fn_ret.call.name} :
                             \A r \in Details(db, name) : r.comment_id # id
              /\ prev_call.call = fn_ret.call => db = prev_call.db

\* Comment "x" was saved for subject "a" with score 10, then for subject
\* "b" with score 90: one row, of subject "b", score 90.
C29_Witness ==
    /\ LastWasSentimentSave
    /\ fn_ret.call.name = "b"
    /\ prev_call.call # NoCall
    /\ prev_call.call.method = "save_sentiment_scores"
    /\ prev_call.call.name = "a"
    /\ \E r \in prev_call.db.sentiment_scores :
          r.comment_id = "x" /\ r.weighted_score = 10 /\ r.subject_id = 1
    /\ \E r \in db.sentiment_scores :
          r.comment_id = "x" /\ r.weighted_score = 90 /\ r.subject_id = 2
    /\ Details(db, "a") = {}

----------------------------------------------------------------------------
(* Claims about replies lacking a field, and about the order of a run *)

\* C27: when the reply's JSON object lacks the 'sentiment' field or the
\* 'bias_score' field, the comment is scored with the TextBlob value as its
\* contextual polarity and 50 as its bias.
C27_MissingFieldFallsBack ==
    \A i \in ScoredIdx :
        (/\ replies[i].kind = "json"
         /\ \/ replies[i].sentiment.tag = "absent"
            \/ replies[i].bias_score.tag = "absent")
        => /\ sentiment_scores[i].claude_score = sentiment_scores[i].textblob_score
           /\ sentiment_scores[i].bias_score = FallbackBias

\* The aggregate of the run has been computed.
Aggregated == ariss_result # NoResult

----------------------------------------------------------------------------
(* add_subject called by several threads, each on its own connection *)

MaxThreads == 2    \* threads calling the store

MaxAdds == 2       \* add_subject calls of one thread

Threads == 1..MaxThreads

IdleThread == [pc |-> "idle", name |-> "", category |-> "", calls |-> 0, ret |-> 0]

InitThreads ==
    /\ NoRun
    /\ pc = "threads"
    /\ prev_call = NoCall
    /\ fn_arg = NoValue
    /\ fn_ret = NoValue
    /\ scorer = TRUE
    /\ env = {}
    /\ context = ""
    /\ api = <<>>
    /\ warnings = <<>>
    /\ returned = "pending"
    /\ db = EmptyStore
    /\ threads = [t \in Threads |-> IdleThread]

threadframe ==
    <<pc, prev_call, fn_arg, fn_ret, scorer, env, context, api, warnings, returned,
      vader, comments, replies, sentiment_scores, raised, calc, ariss_result>>

\* A thread calls db.add_subject(name, category): conn = self._get_connection()
BeginAdd(t, name, category) ==
    /\ pc = "threads"
    /\ threads[t].pc = "idle"
    /\ threads[t].calls < MaxAdds
    /\ threads' = [threads EXCEPT ![t] = [pc |-> "insert", name |-> name,
                                          category |-> category,
                                          calls |-> @.calls, ret |-> 0]]
    /\ UNCHANGED db
    /\ UNCHANGED threadframe

\* cursor.execute(INSERT OR IGNORE ...): the statement takes the database's
\* write lock, waiting while another connection holds it.
InsertStep(t) ==
    /\ pc = "threads"
    /\ threads[t].pc = "insert"
    /\ db.writer = 0
    /\ db' = [InsertOrIgnoreSubject(db, threads[t].name, threads[t].category)
                 EXCEPT !.writer = t]
    /\ threads' = [threads EXCEPT ![t].pc = "commit"]
    /\ UNCHANGED threadframe

\* conn.commit(): the write lock is released.
CommitStep(t) ==
    /\ pc = "threads"
    /\ threads[t].pc = "commit"
    /\ db' = [db EXCEPT !.writer = 0]
    /\ threads' = [threads EXCEPT ![t].pc = "select"]
    /\ UNCHANGED threadframe

\* cursor.execute(SELECT id FROM subjects WHERE name = ?); return result[0]
SelectStep(t) ==
    /\ pc = "threads"
    /\ threads[t].pc = "select"
    /\ threads' = [threads EXCEPT ![t].pc = "idle",
                                  ![t].calls = @ + 1,
                                  ![t].ret = SubjectId(db, threads[t].name)]
    /\ UNCHANGED db
    /\ UNCHANGED threadframe

NextThreads ==
    \/ \E t \in Threads, name \in SubjectNames, category \in {"c", "d"} :
          BeginAdd(t, name, category)
    \/ \E t \in Threads : InsertStep(t)
    \/ \E t \in Threads : CommitStep(t)
    \/ \E t \in Threads : SelectStep(t)

SpecThreads == InitThreads /\ [][NextThreads]_vars

\* C30: add_subject is get-or-create under any interleaving: no two
\* subjects rows have the same name, a name whose INSERT has run has its
\* row, every call that has returned returned the id of the row of its
\* name, and no step changes or removes a row once it is there (a later
\* call with another category leaves the stored category as it was).
C30_GetOrCreate ==
    /\ [](pc = "threads" =>
            /\ \A i, j \in 1..Len(db.subjects) :
                  db.subjects[i].name = db.subjects[j].name => i = j
            /\ \A t \in Threads :
                  /\ threads[t].pc \in {"commit", "select"}
                        => SubjectId(db, threads[t].name) # 0
                  /\ (threads[t].pc = "idle" /\ threads[t].calls > 0)
                        => /\ threads[t].ret # 0
                           /\ threads[t].ret = SubjectId(db, threads[t].name))
    /\ [][\A i \in 1..Len(db.subjects) :
             /\ i <= Len(db'.subjects)
             /\ db'.subjects[i] = db.subjects[i]]_vars

\* Both threads added "a", with different categories: one row, the
\* category of the first INSERT, and both calls returned its id.
C30_Witness ==
    /\ pc = "threads"
    /\ Len(db.subjects) = 1
    /\ db.subjects[1] = [name |-> "a", category |-> "c"]
    /\ \A t \in Threads : threads[t].pc = "idle" /\ threads[t].name = "a"
    /\ threads[1].ret = 1
    /\ threads[2].ret = 1
    /\ threads[2].category = "d"

====
